---------------------------- MODULE Spec2Model ----------------------------
(***************************************************************************)
(* A model of the gswap trading bot: the trade executor (TradingStrategy), *)
(* the engine lifecycle (MostInterestingTraderBot), the pool snapshot      *)
(* cache (PoolDataManager), the balance planner (BalanceManager) and the   *)
(* cycle search (CircularPathFinder).                                      *)
(*                                                                         *)
(* Amounts are fixed-point integers in units of 1e-6 token; the source     *)
(* uses IEEE doubles.  Token keys are the strings the source compares.     *)
(* An await of the source is a step boundary of the model: one action is   *)
(* what runs between two suspension points of one async call.              *)
(***************************************************************************)
EXTENDS Integers, Sequences, FiniteSets, TLC

VARIABLES
  config,              \* BotConfig, immutable after load
  tradeHistory,        \* TradingStrategy.tradeHistory
  swapLog,             \* the submissions received by gSwap.swaps.swap, in order
  socketConnected,     \* GSwap.events.eventSocketConnected()
  threads,             \* the async calls in flight, by slot
  lastReturn,          \* how the last completed public call ended
  isRunning,           \* MostInterestingTraderBot.isRunning
  intervalId,          \* MostInterestingTraderBot.intervalId (0 is null)
  arbitrageIntervalId, \* MostInterestingTraderBot.arbitrageIntervalId (0 is null)
  timers,              \* the setInterval timers the runtime still holds
  nextTimerId,         \* the id the next setInterval returns
  lastBalanceCheck,    \* MostInterestingTraderBot.lastBalanceCheck
  lastTradeTime,       \* MostInterestingTraderBot.lastTradeTime is set
  lastArbitrageScanTime, \* MostInterestingTraderBot.lastArbitrageScanTime is set
  lastLog,             \* the last line the engine's logger wrote about its lifecycle
  lifecycle,           \* the start() and stop() calls made so far, in order
  ops,                 \* how many public calls and timer callbacks were started
  detectionHistory,    \* ArbitrageDetector.detectionHistory
  executionHistory,    \* ArbitrageDetector.executionHistory
  poolCache,           \* PoolDataManager.poolCache
  now,                 \* Date.now()
  gets,                \* the getCompositePoolData calls in flight
  fetchLog,            \* the transport fetches issued, in order
  userAssets,          \* what getUserAssets answered to the last getBalances
  balanceSummary,      \* the BalanceSummary the last getBalances returned
  tradeIntents,        \* what getTokensToTrade(balanceSummary) returned
  planned,             \* tradeIntents was computed from balanceSummary
  finder,              \* the last findCircularPaths call and what it returned
  detection,           \* the last profitability scan over finder.paths
  pending,             \* the transaction an executeTrade is waiting for
  server               \* the web server's bot variable and the engines it created

execVars   == <<tradeHistory, swapLog, socketConnected, threads, lastReturn>>
engineVars == <<isRunning, intervalId, arbitrageIntervalId, timers, nextTimerId,
                lastBalanceCheck, lastTradeTime, lastArbitrageScanTime, lastLog,
                lifecycle>>
arbVars    == <<detectionHistory, executionHistory>>
cacheVars  == <<poolCache, now, gets, fetchLog>>
planVars   == <<userAssets, balanceSummary, tradeIntents, planned>>
pureVars   == <<planVars, finder, detection, pending, server>>
vars       == <<config, ops, execVars, engineVars, arbVars, cacheVars, pureVars>>

-----------------------------------------------------------------------------
(* Token keys and program constants                                        *)

GALA  == "GALA|Unit|none|none"
SILK  == "SILK|Unit|none|none"
GUSDC == "GUSDC|Unit|none|none"
GUSDT == "GUSDT|Unit|none|none"
GWBTC == "GWBTC|Unit|none|none"
GETH  == "GETH|Unit|none|none"

Unit == 1000 * 1000        \* one token, in the model's fixed-point units

FeeTiers == <<500, 3000, 10000>>

DefaultMinimumGalaBalance == 100
DefaultMaxSlippage == 5
DefaultTradeAmountPercentage == 10
MockSlippagePercent == 98

Undef == 0 - 1             \* an optional number that is absent
NoId  == <<>>              \* an optional transaction id that is absent
NoErr == "none"            \* an optional error message that is absent

Falsy(n) == n = Undef \/ n = 0

Abs(n) == IF n < 0 THEN -n ELSE n

\* floor(a * n / d), computed without leaving TLC's 32-bit integers
MulDiv(a, n, d) == (a \div d) * n + ((a % d) * n) \div d

Or(a, b) == IF a # "" THEN a ELSE b      \* a || b on strings

-----------------------------------------------------------------------------
(* TradingStrategy.findAvailablePools and executeTrade                     *)

\* probe[k] is what getPoolData reports for FeeTiers[k]: a liquidity, or
\* Undef when the call throws.
PoolInfo(fee, liquidity) == [fee |-> fee, liquidity |-> liquidity]

RECURSIVE InsertByLiquidity(_, _)
InsertByLiquidity(sorted, p) ==
  IF sorted = <<>> THEN <<p>>
  ELSE IF Head(sorted).liquidity < p.liquidity
       THEN <<p>> \o sorted
       ELSE <<Head(sorted)>> \o InsertByLiquidity(Tail(sorted), p)

RECURSIVE SortByLiquidity(_)
SortByLiquidity(pools) ==
  IF pools = <<>> THEN <<>>
  ELSE InsertByLiquidity(SortByLiquidity(SubSeq(pools, 1, Len(pools) - 1)),
                         pools[Len(pools)])

RECURSIVE ProbeTiers(_, _)
ProbeTiers(probe, k) ==
  IF k > Len(FeeTiers) THEN <<>>
  ELSE IF probe[k] # Undef /\ probe[k] > 0
       THEN <<PoolInfo(FeeTiers[k], probe[k])>> \o ProbeTiers(probe, k + 1)
       ELSE ProbeTiers(probe, k + 1)

findAvailablePools(probe) == SortByLiquidity(ProbeTiers(probe, 1))

RECURSIVE ReduceBest(_, _)
ReduceBest(prev, rest) ==
  IF rest = <<>> THEN prev
  ELSE ReduceBest(IF Head(rest).liquidity > prev.liquidity THEN Head(rest) ELSE prev,
                  Tail(rest))

TradeResult(success, from, to, amountIn, amountOut, txId, error) ==
  [success |-> success, fromToken |-> from, toToken |-> to, amountIn |-> amountIn,
   amountOut |-> amountOut, transactionId |-> txId, error |-> error]

Normal(v) == [threw |-> FALSE, error |-> NoErr, value |-> v]
Thrown(e) == [threw |-> TRUE, error |-> e, value |-> Undef]

\* The fee tier of the first pool whose probe answers, liquid or not.
SelectFeeFirstAnswer(fee, probe) ==
  IF fee # 0 THEN Normal(fee)
  ELSE LET answered == { k \in 1..Len(FeeTiers) : probe[k] # Undef } IN
       IF answered = {} THEN Thrown("No liquid pools found")
       ELSE Normal(FeeTiers[CHOOSE k \in answered : \A j \in answered : k <= j])

\* The fee tier the trade uses: the given one, or the best probed pool's.
SelectFee(fee, probe) ==
  IF fee # 0 THEN Normal(fee)
  ELSE LET pools == findAvailablePools(probe) IN
       IF Len(pools) = 0 THEN Thrown("No liquid pools found")
       ELSE Normal(ReduceBest(Head(pools), Tail(pools)).fee)

\* A quote step that takes a quote with no output amount for one of 0.
QuoteStepAcceptsEmpty(env) ==
  IF env.quote = "fail" THEN Thrown("Unable to get quote: rejected")
  ELSE IF env.quote = "empty" THEN Normal(0)
  ELSE Normal(Abs(env.quoteOut))

\* The quote step: env.quote is "fail" (the request rejects), "empty" (no
\* output amount on the quote) or "ok" with env.quoteOut the quoted output.
QuoteStep(env) ==
  IF env.quote = "fail" THEN Thrown("Unable to get quote: rejected")
  ELSE IF env.quote = "empty" THEN Thrown("Unable to get quote for trade")
  ELSE Normal(Abs(env.quoteOut))

\* The minimum output without the slippage allowance.
MinOutputIsExpected(expectedOutput, maxSlippage) == expectedOutput

MinOutput(expectedOutput, maxSlippage) ==
  MulDiv(expectedOutput, 100 - maxSlippage, 100)

Submission(from, to, fee, amount, minOutput) ==
  [fromToken |-> from, toToken |-> to, fee |-> fee, exactIn |-> amount,
   amountOutMinimum |-> minOutput]

\* The try block with a wait whose rejection goes unnoticed.
TradeBodyIgnoresWait(cfg, from, to, amount, fee, env, connected) ==
  LET sel == SelectFee(fee, env.probe) IN
  IF sel.threw THEN [threw |-> TRUE, error |-> sel.error, swaps |-> <<>>,
                     connected |-> connected, success |-> FALSE,
                     amountOut |-> Undef, txId |-> NoId]
  ELSE
  LET q == QuoteStep(env) IN
  IF q.threw THEN [threw |-> TRUE, error |-> q.error, swaps |-> <<>>,
                   connected |-> connected, success |-> FALSE,
                   amountOut |-> Undef, txId |-> NoId]
  ELSE
  IF ~connected /\ env.connect = "fail"
  THEN [threw |-> TRUE, error |-> "socket connection failed", swaps |-> <<>>,
        connected |-> FALSE, success |-> FALSE, amountOut |-> Undef, txId |-> NoId]
  ELSE
  LET sub == Submission(from, to, sel.value, amount, MinOutput(q.value, cfg.maxSlippage)) IN
  IF env.submit = "fail"
  THEN [threw |-> TRUE, error |-> "swap rejected", swaps |-> <<sub>>,
        connected |-> TRUE, success |-> FALSE, amountOut |-> Undef, txId |-> NoId]
  ELSE [threw |-> FALSE, error |-> NoErr, swaps |-> <<sub>>,
        connected |-> TRUE, success |-> TRUE, amountOut |-> q.value,
        txId |-> <<"tx">>]

\* The body of executeTrade's try block.  Its value carries the result
\* fields the body sets, the submissions it made and the socket state.
TradeBody(cfg, from, to, amount, fee, env, connected) ==
  LET sel == SelectFee(fee, env.probe) IN
  IF sel.threw THEN [threw |-> TRUE, error |-> sel.error, swaps |-> <<>>,
                     connected |-> connected, success |-> FALSE,
                     amountOut |-> Undef, txId |-> NoId]
  ELSE
  LET q == QuoteStep(env) IN
  IF q.threw THEN [threw |-> TRUE, error |-> q.error, swaps |-> <<>>,
                   connected |-> connected, success |-> FALSE,
                   amountOut |-> Undef, txId |-> NoId]
  ELSE
  IF ~connected /\ env.connect = "fail"
  THEN [threw |-> TRUE, error |-> "socket connection failed", swaps |-> <<>>,
        connected |-> FALSE, success |-> FALSE, amountOut |-> Undef, txId |-> NoId]
  ELSE
  LET sub == Submission(from, to, sel.value, amount, MinOutput(q.value, cfg.maxSlippage)) IN
  IF env.submit = "fail"
  THEN [threw |-> TRUE, error |-> "swap rejected", swaps |-> <<sub>>,
        connected |-> TRUE, success |-> FALSE, amountOut |-> Undef, txId |-> NoId]
  ELSE
  IF env.wait = "fail"
  THEN \* pendingTx.wait() rejected: its own .catch sets the error
       [threw |-> FALSE, error |-> "transaction failed", swaps |-> <<sub>>,
        connected |-> TRUE, success |-> FALSE, amountOut |-> Undef, txId |-> NoId]
  ELSE [threw |-> FALSE, error |-> NoErr, swaps |-> <<sub>>,
        connected |-> TRUE, success |-> TRUE, amountOut |-> q.value,
        txId |-> <<"tx">>]

\* A catch clause that lets the error escape.
CatchNothing(body) == body

\* The catch clause of executeTrade: the error is stored, nothing escapes.
CatchTradeError(body) == [body EXCEPT !.threw = FALSE]

MockAmountOut(amount) == MulDiv(amount, MockSlippagePercent, 100)

DryRunTrade(from, to, amount) ==
  [threw |-> FALSE,
   result |-> TradeResult(TRUE, from, to, amount, MockAmountOut(amount),
                          <<"mock-tx">>, NoErr),
   swaps |-> <<>>, recorded |-> TRUE]

\* executeTrade without the short-circuit of lines 267-275.
executeTradeAlwaysLive(cfg, from, to, amount, fee, env, connected) ==
  LET body == CatchTradeError(TradeBody(cfg, from, to, amount, fee, env, connected)) IN
  [threw |-> body.threw,
   result |-> TradeResult(body.success, from, to, amount, body.amountOut,
                          body.txId, body.error),
   swaps |-> body.swaps, recorded |-> ~body.threw, connected |-> body.connected]

\* executeTrade(fromToken, toToken, amount, fee?) as one step; fee = 0 is
\* "no fee given".  recorded says whether the result reached tradeHistory.
executeTrade(cfg, from, to, amount, fee, env, connected) ==
  IF ~cfg.enableTrading
  THEN DryRunTrade(from, to, amount) @@ [connected |-> connected]
  ELSE LET body == CatchTradeError(TradeBody(cfg, from, to, amount, fee, env, connected)) IN
       [threw |-> body.threw,
        result |-> TradeResult(body.success, from, to, amount, body.amountOut,
                               body.txId, body.error),
        swaps |-> body.swaps,
        recorded |-> ~body.threw,
        connected |-> body.connected]

-----------------------------------------------------------------------------
(* TokenRegistry.findTradingPaths                                          *)

\* The registry's known pairs are written with bare symbols; the lookups
\* are made with full token keys.
KnownPairs ==
  { "GALA|GWBTC|10000", "GALA|GUSDC|3000", "GALA|GUSDT|3000", "GALA|SILK|10000",
    "GUSDC|GUSDT|500" }

PairString(token0, token1, fee) == token0 \o "|" \o token1 \o "|" \o ToString(fee)

Stablecoins == {GUSDC, GUSDT}
MajorTokens == {GWBTC, GETH}

hasPotentialPair(token0, token1) ==
  \/ \E k \in 1..Len(FeeTiers) :
       \/ PairString(token0, token1, FeeTiers[k]) \in KnownPairs
       \/ PairString(token1, token0, FeeTiers[k]) \in KnownPairs
  \/ token0 = GALA \/ token1 = GALA
  \/ (token0 \in Stablecoins /\ token1 \in MajorTokens)
  \/ (token1 \in Stablecoins /\ token0 \in MajorTokens)

IntermediateTokens == <<GALA, GUSDC, GUSDT>>

RECURSIVE TwoHopPaths(_, _, _)
TwoHopPaths(from, to, k) ==
  IF k > Len(IntermediateTokens) THEN <<>>
  ELSE LET mid == IntermediateTokens[k] IN
       IF /\ mid # from /\ mid # to
          /\ hasPotentialPair(from, mid) /\ hasPotentialPair(mid, to)
       THEN <<(<<from, mid, to>>)>> \o TwoHopPaths(from, to, k + 1)
       ELSE TwoHopPaths(from, to, k + 1)

findTradingPaths(from, to, maxHops) ==
  (IF hasPotentialPair(from, to) THEN <<(<<from, to>>)>> ELSE <<>>)
  \o (IF maxHops >= 2 THEN TwoHopPaths(from, to, 1) ELSE <<>>)

-----------------------------------------------------------------------------
(* The async calls in flight                                               *)

MaxThreads == 2

\* An arbitrage opportunity: the circular path's tokens, the fee tier of
\* each hop's pool, and the profit figures.
Opportunity(tokens, fees, inputAmount, expectedOutputAmount, netProfit) ==
  [tokens |-> tokens, fees |-> fees, inputAmount |-> inputAmount,
   expectedOutputAmount |-> expectedOutputAmount, netProfit |-> netProfit]

NoOpp == Opportunity(<<>>, <<>>, 0, 0, 0)

\* One call chain start -> executeTradeCycle -> executeTradesForPreferredToken
\* -> executeMultiHopTrade, flattened: entry is the outermost call, pc the
\* await the chain is suspended at.  given (the intents as the caller passed
\* them) and executed (the intents handed to executeMultiHopTrade so far)
\* are history variables, kept for the properties.
NoThread ==
  [entry |-> "none", pc |-> "none", trades |-> <<>>, i |-> 0, results |-> <<>>,
   executed |-> <<>>, from |-> "", to |-> "", amount |-> 0, hop |-> "none",
   paths |-> <<>>, p |-> 0, first |-> Undef, firstTx |-> NoId, opp |-> NoOpp,
   given |-> <<>>]

\* What the transport answers during one executeTrade: the liquidity each fee
\* tier's probe finds (Undef: the probe fails), and how the quote, the socket
\* connection, the submission and the wait for the transaction end.
TradeEnv(probe, quote, quoteOut, connect, submit, wait) ==
  [probe |-> probe, quote |-> quote, quoteOut |-> quoteOut, connect |-> connect,
   submit |-> submit, wait |-> wait]

NoEnv == TradeEnv(<<>>, "none", 0, "none", "none", "none")

Ret(results) == [threw |-> FALSE, error |-> NoErr, results |-> results]
Exc(error)   == [threw |-> TRUE, error |-> error, results |-> <<>>]

NoReturn ==
  [fn |-> "none", threw |-> FALSE, error |-> NoErr, results |-> <<>>,
   given |-> <<>>, trades |-> <<>>, executed |-> <<>>, env |-> NoEnv]

\* The variables one step of a call chain may change, with its own thread.
World(t) ==
  [th |-> threads[t], tradeHistory |-> tradeHistory, swapLog |-> swapLog,
   socketConnected |-> socketConnected, lastReturn |-> lastReturn,
   isRunning |-> isRunning, intervalId |-> intervalId,
   arbitrageIntervalId |-> arbitrageIntervalId, timers |-> timers,
   nextTimerId |-> nextTimerId, lastBalanceCheck |-> lastBalanceCheck,
   lastTradeTime |-> lastTradeTime, lastLog |-> lastLog,
   lastArbitrageScanTime |-> lastArbitrageScanTime,
   detectionHistory |-> detectionHistory, executionHistory |-> executionHistory,
   poolCache |-> poolCache, fetchLog |-> fetchLog]

Apply(t, w) ==
  /\ threads' = [threads EXCEPT ![t] = w.th]
  /\ tradeHistory' = w.tradeHistory
  /\ swapLog' = w.swapLog
  /\ socketConnected' = w.socketConnected
  /\ lastReturn' = w.lastReturn
  /\ isRunning' = w.isRunning
  /\ intervalId' = w.intervalId
  /\ arbitrageIntervalId' = w.arbitrageIntervalId
  /\ timers' = w.timers
  /\ nextTimerId' = w.nextTimerId
  /\ lastBalanceCheck' = w.lastBalanceCheck
  /\ lastTradeTime' = w.lastTradeTime
  /\ lastArbitrageScanTime' = w.lastArbitrageScanTime
  /\ lastLog' = w.lastLog
  /\ detectionHistory' = w.detectionHistory
  /\ executionHistory' = w.executionHistory
  /\ poolCache' = w.poolCache
  /\ fetchLog' = w.fetchLog

\* The outermost call of the chain returns or throws to its caller.
Finish(w, outcome) ==
  [w EXCEPT !.th = NoThread,
            !.lastReturn = [fn |-> w.th.entry, threw |-> outcome.threw,
                            error |-> outcome.error, results |-> outcome.results,
                            given |-> w.th.given, trades |-> w.th.trades,
                            executed |-> w.th.executed, env |-> NoEnv]]

-----------------------------------------------------------------------------
(* BalanceManager                                                          *)

\* An asset of the transport's inventory.  A field the asset lacks is "".
\* nested is the asset's tokenClassKey (or tokenClass) when it has one.
Asset(hasNested, collection, category, type, additionalKey, symbol, quantity) ==
  [hasNested |-> hasNested, collection |-> collection, category |-> category,
   type |-> type, additionalKey |-> additionalKey, symbol |-> symbol,
   quantity |-> quantity]

\* For a nested asset the four fields are read from the nested object, for a
\* flat one from the asset itself: the same four fields of the record.
constructTokenKey(token) ==
  Or(Or(token.collection, token.symbol), "unknown") \o "|" \o
  Or(token.category, "Unit") \o "|" \o
  Or(token.type, "none") \o "|" \o
  Or(token.additionalKey, "none")

TokenBalance(tokenKey, symbol, quantity, decimals) ==
  [tokenKey |-> tokenKey, symbol |-> symbol, quantity |-> quantity,
   decimals |-> decimals]

EmptySummary ==
  [preferredTokenBalance |-> 0, galaTokenBalance |-> 0, otherTokens |-> <<>>,
   totalTokens |-> 0]

RECURSIVE PartitionAssets(_, _, _)
PartitionAssets(cfg, tokens, acc) ==
  IF tokens = <<>> THEN acc
  ELSE LET token == Head(tokens)
           tokenKey == constructTokenKey(token)
           balance == token.quantity
           next ==
             IF tokenKey = cfg.preferredTokenKey
             THEN [acc EXCEPT !.preferredTokenBalance = balance,
                              !.galaTokenBalance =
                                 IF tokenKey = cfg.galaTokenKey THEN balance ELSE @]
             ELSE IF tokenKey = cfg.galaTokenKey
             THEN [acc EXCEPT !.galaTokenBalance = balance]
             ELSE [acc EXCEPT !.otherTokens =
                     Append(@, TokenBalance(tokenKey, Or(token.symbol, "UNKNOWN"),
                                            balance, 8))]
       IN PartitionAssets(cfg, Tail(tokens), next)

\* assets is what getUserAssets answered: its tokens and its count.
getBalances(cfg, assets) ==
  [PartitionAssets(cfg, assets.tokens, EmptySummary) EXCEPT !.totalTokens = assets.count]

DustThreshold == 1         \* 0.000001 token

shouldMaintainGalaBalanceAlways(cfg, balance) == TRUE

shouldMaintainGalaBalance(cfg, balance) ==
  balance.galaTokenBalance < cfg.minimumGalaBalance

canTradeExcessGalaAboveMinimum(cfg, balance) ==
  balance.galaTokenBalance > cfg.minimumGalaBalance

canTradeExcessGala(cfg, balance) ==
  balance.galaTokenBalance > cfg.minimumGalaBalance * 2

\* ceil(a * n / d): an amount is rounded up to the next fixed-point unit, so
\* that the tests "> 0" and "> 0.000001" answer as they do on the exact
\* product.
MulDivUp(a, n, d) ==
  MulDiv(a, n, d) + (IF (((a % d) * n) % d) = 0 THEN 0 ELSE 1)

\* The amount without the branch for the gas token.
calculateTradeAmountAllAlike(cfg, tokenBalance, isGala) ==
  LET amount == MulDivUp(tokenBalance, cfg.tradeAmountPercentage, 100) IN
  IF amount > DustThreshold THEN amount ELSE 0

calculateTradeAmount(cfg, tokenBalance, isGala) ==
  IF isGala
  THEN LET excess == tokenBalance - cfg.minimumGalaBalance IN
       IF excess <= 0 THEN 0
       ELSE MulDivUp(excess, cfg.tradeAmountPercentage, 200)
  ELSE LET amount == MulDivUp(tokenBalance, cfg.tradeAmountPercentage, 100) IN
       IF amount > DustThreshold THEN amount ELSE 0

Intent(token, targetToken, amount) ==
  [token |-> token, targetToken |-> targetToken, amount |-> amount]

RECURSIVE IntentsFor(_, _, _)
IntentsFor(cfg, tokens, targetToken) ==
  IF tokens = <<>> THEN <<>>
  ELSE LET amount == calculateTradeAmount(cfg, Head(tokens).quantity, FALSE) IN
       (IF amount > 0 THEN <<Intent(Head(tokens), targetToken, amount)>> ELSE <<>>)
       \o IntentsFor(cfg, Tail(tokens), targetToken)

\* The third priority without its test of the preferred token.
ExcessGalaIntentsUnguarded(cfg, balance) ==
  IF canTradeExcessGala(cfg, balance)
  THEN <<Intent(TokenBalance(cfg.galaTokenKey, "GALA", balance.galaTokenBalance, 8),
                cfg.preferredTokenKey,
                calculateTradeAmount(cfg, balance.galaTokenBalance, TRUE))>>
  ELSE <<>>

ExcessGalaIntents(cfg, balance) ==
  IF canTradeExcessGala(cfg, balance) /\ cfg.preferredTokenKey # cfg.galaTokenKey
  THEN LET galaAmount == calculateTradeAmount(cfg, balance.galaTokenBalance, TRUE) IN
       IF galaAmount > 0
       THEN <<Intent(TokenBalance(cfg.galaTokenKey, "GALA", balance.galaTokenBalance, 8),
                     cfg.preferredTokenKey, galaAmount)>>
       ELSE <<>>
  ELSE <<>>

\* The priorities with the first two exchanged.
getTokensToTradePreferredFirst(cfg, balance) ==
  IntentsFor(cfg, balance.otherTokens, cfg.preferredTokenKey)
  \o (IF shouldMaintainGalaBalance(cfg, balance)
      THEN IntentsFor(cfg, balance.otherTokens, cfg.galaTokenKey)
      ELSE <<>>)
  \o ExcessGalaIntents(cfg, balance)

getTokensToTrade(cfg, balance) ==
  (IF shouldMaintainGalaBalance(cfg, balance)
   THEN IntentsFor(cfg, balance.otherTokens, cfg.galaTokenKey)
   ELSE <<>>)
  \o IntentsFor(cfg, balance.otherTokens, cfg.preferredTokenKey)
  \o ExcessGalaIntents(cfg, balance)

-----------------------------------------------------------------------------
(* PoolDataManager: keys and eviction                                      *)

\* The token keys of the model in the order of JavaScript's string "<".
TokenOrder == <<GALA, GETH, GUSDC, GUSDT, GWBTC, SILK>>

IndexOf(seq, x) == CHOOSE k \in 1..Len(seq) : seq[k] = x

StringLess(a, b) == IndexOf(TokenOrder, a) < IndexOf(TokenOrder, b)

\* A key that keeps the caller's token order.
getCacheKeyAsGiven(token0, token1, fee) ==
  token0 \o "|" \o token1 \o "|" \o ToString(fee)

getCacheKey(token0, token1, fee) ==
  IF StringLess(token0, token1)
  THEN token0 \o "|" \o token1 \o "|" \o ToString(fee)
  ELSE token1 \o "|" \o token0 \o "|" \o ToString(fee)

CachedPool(data, expiresAt) == [data |-> data, expiresAt |-> expiresAt]

clearExpiredCache(cache, time) ==
  [k \in {key \in DOMAIN cache : ~(time >= cache[key].expiresAt)} |-> cache[k]]

CacheTTL == 2              \* cacheTTL, in ticks of the model's clock

\* What fetchCompositePoolData returns; version stands for the snapshot's
\* content, it is the fetch's place in fetchLog.
PoolData(token0, token1, fee, version) ==
  [token0 |-> token0, token1 |-> token1, fee |-> fee, version |-> version]

NoData == PoolData("", "", 0, 0)

\* The test "cached && Date.now() < cached.expiresAt".
CacheHit(cache, key, time) ==
  key \in DOMAIN cache /\ time < cache[key].expiresAt

CacheSet(cache, key, entry) ==
  [k \in DOMAIN cache \cup {key} |-> IF k = key THEN entry ELSE cache[k]]

getAllCachedPools(cache) == { cache[k].data : k \in DOMAIN cache }

\* The pools of the registry (pools.csv), in file order.
RegisteredPools ==
  << [token0 |-> GALA, token1 |-> SILK, fee |-> 10000],
     [token0 |-> SILK, token1 |-> GALA, fee |-> 3000] >>

\* A preload that gives up at the first fetch that fails.
RECURSIVE PreloadStopsAtFailure(_, _, _, _)
PreloadStopsAtFailure(w, k, failing, time) ==
  IF k > Len(RegisteredPools) THEN w
  ELSE LET pool == RegisteredPools[k]
           key == getCacheKey(pool.token0, pool.token1, pool.fee)
       IN IF CacheHit(w.poolCache, key, time)
          THEN PreloadStopsAtFailure(w, k + 1, failing, time)
          ELSE LET log == Append(w.fetchLog, key)
                   data == PoolData(pool.token0, pool.token1, pool.fee, Len(log))
               IN IF k \in failing THEN [w EXCEPT !.fetchLog = log]
                  ELSE PreloadStopsAtFailure(
                         [w EXCEPT !.fetchLog = log,
                                   !.poolCache =
                                      CacheSet(@, key, CachedPool(data, time + CacheTTL))],
                         k + 1, failing, time)

\* preloadKnownPools from pool k on: a pool with a live entry is not
\* fetched; a fetch that fails (k in failing) is skipped.
RECURSIVE Preload(_, _, _, _)
Preload(w, k, failing, time) ==
  IF k > Len(RegisteredPools) THEN w
  ELSE LET pool == RegisteredPools[k]
           key == getCacheKey(pool.token0, pool.token1, pool.fee)
       IN IF CacheHit(w.poolCache, key, time) THEN Preload(w, k + 1, failing, time)
          ELSE LET log == Append(w.fetchLog, key)
                   data == PoolData(pool.token0, pool.token1, pool.fee, Len(log))
               IN Preload([w EXCEPT !.fetchLog = log,
                                    !.poolCache =
                                       IF k \in failing THEN @
                                       ELSE CacheSet(@, key, CachedPool(data, time + CacheTTL))],
                          k + 1, failing, time)

-----------------------------------------------------------------------------
(* MostInterestingTraderBot: what runs when an awaited call returns        *)

LogStarted      == "Bot started successfully"
LogStopped      == "Bot stopped"
LogAlreadyRunning == "Bot is already running"
LogNotRunning   == "Bot is not running"
LogStarting     == "Starting trading bot..."
LogCycleFailed  == "Trade cycle failed"
LogNone         == ""

\* setInterval(callback, interval): the runtime holds a new timer.
SetInterval(w, kind) ==
  [w EXCEPT !.timers = @ \cup {[id |-> w.nextTimerId, kind |-> kind]},
            !.nextTimerId = @ + 1]

\* start(), after the first arbitrage scan returned.
StartAfterScan(w) ==
  LET w1 == SetInterval(w, "scan") IN
  Finish([w1 EXCEPT !.arbitrageIntervalId = w.nextTimerId, !.lastLog = LogStarted],
         Ret(<<>>))

\* executeArbitrageScan returns.
ScanReturn(w) ==
  IF w.th.entry = "start" THEN StartAfterScan(w) ELSE Finish(w, Ret(<<>>))

\* executeArbitrageScan up to its first await.
ScanBegin(w) ==
  IF ~config.enableArbitrage THEN ScanReturn(w)
  ELSE [w EXCEPT !.th.pc = "scanning"]

\* start() going on to the first scan whatever the configuration says.
StartAfterCycleAlwaysScans(w) ==
  ScanBegin([SetInterval(w, "cycle") EXCEPT !.intervalId = w.nextTimerId])

\* start(), after the first trade cycle returned.
StartAfterCycle(w) ==
  LET w1 == [SetInterval(w, "cycle") EXCEPT !.intervalId = w.nextTimerId] IN
  IF config.enableArbitrage
  THEN ScanBegin(w1)
  ELSE Finish([w1 EXCEPT !.lastLog = LogStarted], Ret(<<>>))

\* executeTradeCycle returns.
CycleReturn(w) ==
  IF w.th.entry = "start" THEN StartAfterCycle(w) ELSE Finish(w, Ret(<<>>))

\* executeTradeCycle, after executeTradesForPreferredToken returned or threw.
CycleAfterBatch(w, outcome) ==
  IF outcome.threw THEN CycleReturn([w EXCEPT !.lastLog = LogCycleFailed])
  ELSE LET w1 == [w EXCEPT !.lastTradeTime = TRUE] IN
       IF /\ config.enableTrading
          /\ \E k \in 1..Len(outcome.results) : outcome.results[k].success
       THEN [w1 EXCEPT !.th.pc = "refetch"]
       ELSE CycleReturn(w1)

-----------------------------------------------------------------------------
(* TradingStrategy.executeTradesForPreferredToken and executeMultiHopTrade *)

\* executeTradesForPreferredToken returns or throws.
BatchReturn(w, outcome) ==
  IF w.th.entry = "batch" THEN Finish(w, outcome) ELSE CycleAfterBatch(w, outcome)

\* The loop body after executeMultiHopTrade returned or threw: a throw is
\* not caught here, a result is pushed and the delay awaited unless the
\* trade was the last.
BatchAfterTrade(w, outcome) ==
  IF outcome.threw THEN BatchReturn(w, outcome)
  ELSE LET w1 == [w EXCEPT !.th.results = @ \o outcome.results] IN
       IF w.th.i < Len(w.th.trades)
       THEN [w1 EXCEPT !.th.pc = "delay"]
       ELSE BatchReturn(w1, Ret(w1.th.results))

\* executeMultiHopTrade returns or throws.
RoutedReturn(w, outcome) ==
  IF w.th.entry = "routed" THEN Finish(w, outcome) ELSE BatchAfterTrade(w, outcome)

\* executeMultiHopTrade up to its first await: the direct trade is in flight.
RoutedBegin(w, from, to, amount) ==
  [w EXCEPT !.th.pc = "trade", !.th.hop = "direct", !.th.from = from, !.th.to = to,
            !.th.amount = amount, !.th.paths = <<>>, !.th.p = 0,
            !.th.first = Undef, !.th.firstTx = NoId]

\* A comparator that gives the gas token no priority.
CompareTradesNoPriority(cfg, a, b) == 0

\* The comparator of the sort: trades to the gas token first.
CompareTrades(cfg, a, b) ==
  IF a.targetToken = cfg.galaTokenKey /\ b.targetToken # cfg.galaTokenKey THEN 0 - 1
  ELSE IF b.targetToken = cfg.galaTokenKey /\ a.targetToken # cfg.galaTokenKey THEN 1
  ELSE 0

\* Array.prototype.sort is stable: x goes before the first element it
\* compares less than.
RECURSIVE InsertTrade(_, _, _)
InsertTrade(cfg, sorted, x) ==
  IF sorted = <<>> THEN <<x>>
  ELSE IF CompareTrades(cfg, x, Head(sorted)) < 0
       THEN <<x>> \o sorted
       ELSE <<Head(sorted)>> \o InsertTrade(cfg, Tail(sorted), x)

RECURSIVE SortTrades(_, _)
SortTrades(cfg, trades) ==
  IF trades = <<>> THEN <<>>
  ELSE InsertTrade(cfg, SortTrades(cfg, SubSeq(trades, 1, Len(trades) - 1)),
                   trades[Len(trades)])

\* The loop calls executeMultiHopTrade for trades[i].
BatchCallTrade(w, i) ==
  LET trade == w.th.trades[i] IN
  RoutedBegin([w EXCEPT !.th.i = i, !.th.executed = Append(@, trade)],
              trade.token.tokenKey, trade.targetToken, trade.amount)

\* executeTradesForPreferredToken up to its first await.  With trading
\* disabled every iteration of the loop continues at once.
BatchBegin(w, trades) ==
  LET w1 == [w EXCEPT !.th.given = trades,
                      !.th.trades = SortTrades(config, trades), !.th.i = 0,
                      !.th.results = <<>>, !.th.executed = <<>>] IN
  IF ~config.enableTrading \/ trades = <<>>
  THEN BatchReturn(w1, Ret(<<>>))
  ELSE BatchCallTrade(w1, 1)

\* The index of the first two-hop path after position p, or 0.
NextTwoHop(paths, p) ==
  IF \E q \in (p + 1)..Len(paths) : Len(paths[q]) = 3
  THEN CHOOSE q \in (p + 1)..Len(paths) :
         /\ Len(paths[q]) = 3
         /\ \A r \in (p + 1)..(q - 1) : Len(paths[r]) # 3
  ELSE 0

\* The path loop moves on to the path at index q, or runs out of paths.
TryPath(w, q) ==
  IF q = 0 THEN RoutedReturn(w, Exc("All trading paths failed"))
  ELSE [w EXCEPT !.th.pc = "trade", !.th.hop = "hop1", !.th.p = q]

MultiHopId(firstTx, secondTx) ==
  <<"multi-hop">> \o (IF firstTx = NoId THEN <<"unknown">> ELSE firstTx)
                  \o (IF secondTx = NoId THEN <<"unknown">> ELSE secondTx)

\* executeMultiHopTrade, after the executeTrade it awaited ended as r.
RoutedAfterTrade(w, r) ==
  LET th == w.th IN
  CASE th.hop = "direct" ->
         IF ~r.threw /\ r.result.success THEN RoutedReturn(w, Ret(<<r.result>>))
         ELSE LET paths == findTradingPaths(th.from, th.to, 2) IN
              IF Len(paths) = 0 THEN RoutedReturn(w, Exc("No trading path found"))
              ELSE TryPath([w EXCEPT !.th.paths = paths], NextTwoHop(paths, 0))
    [] th.hop = "hop1" ->
         IF r.threw \/ ~r.result.success \/ Falsy(r.result.amountOut)
         THEN TryPath(w, NextTwoHop(th.paths, th.p))
         ELSE [w EXCEPT !.th.hop = "hop2", !.th.first = r.result.amountOut,
                        !.th.firstTx = r.result.transactionId]
    [] OTHER ->
         IF ~r.threw /\ r.result.success /\ ~Falsy(r.result.amountOut)
         THEN RoutedReturn(w, Ret(<<TradeResult(TRUE, th.from, th.to, th.amount,
                                               r.result.amountOut,
                                               MultiHopId(th.firstTx, r.result.transactionId),
                                               NoErr)>>))
         ELSE TryPath(w, NextTwoHop(th.paths, th.p))

\* The executeTrade call a thread suspended at pc = "trade" is awaiting.
PendingTrade(th) ==
  CASE th.hop = "direct" -> [from |-> th.from, to |-> th.to, amount |-> th.amount]
    [] th.hop = "hop1" -> [from |-> th.paths[th.p][1], to |-> th.paths[th.p][2],
                           amount |-> th.amount]
    [] OTHER -> [from |-> th.paths[th.p][2], to |-> th.paths[th.p][3],
                 amount |-> th.first]

\* executeTrade's effects on the strategy and the transport.
AfterExecuteTrade(w, r) ==
  [w EXCEPT !.tradeHistory = IF r.recorded THEN Append(@, r.result) ELSE @,
            !.swapLog = @ \o r.swaps,
            !.socketConnected = r.connected]

-----------------------------------------------------------------------------
(* What the transport may answer                                           *)

DeadProbes == { <<Undef, Undef, Undef>>, <<0, Undef, 0>> }
LiveProbes == { <<5, 9, 9>>, <<0, 0, 4>> }
QuoteOuts  == { 100 * Unit, 0 - 40 * Unit }

\* Every way one executeTrade call can go, by the first step that fails.
TradeEnvs ==
  { TradeEnv(pr, "fail", 0, "ok", "ok", "ok") : pr \in DeadProbes }
  \cup { TradeEnv(<<5, 9, 9>>, q, 0, "ok", "ok", "ok") : q \in {"fail", "empty"} }
  \cup { TradeEnv(<<5, 9, 9>>, "ok", 100 * Unit, "fail", "ok", "ok"),
         TradeEnv(<<5, 9, 9>>, "ok", 100 * Unit, "ok", "fail", "ok"),
         TradeEnv(<<5, 9, 9>>, "ok", 100 * Unit, "ok", "ok", "fail") }
  \cup { TradeEnv(pr, "ok", out, "ok", "ok", "ok") : pr \in LiveProbes, out \in QuoteOuts }

\* With trading disabled executeTrade asks the transport nothing.
EnvsFor(Envs) ==
  IF config.enableTrading THEN Envs
  ELSE { TradeEnv(<<5, Undef, 0>>, "ok", 100 * Unit, "ok", "ok", "ok") }

-----------------------------------------------------------------------------
(* The steps of the call chains                                            *)

MaxOps == 2

FreeSlot(t) == threads[t].entry = "none"
Begun == ops < MaxOps /\ ops' = ops + 1
Quiet == \A t \in 1..MaxThreads : FreeSlot(t)

NewThread(entry) == [NoThread EXCEPT !.entry = entry]

\* An awaited executeTrade of executeMultiHopTrade completes.
TradeStep(t, Envs) ==
  /\ threads[t].pc = "trade"
  /\ \E env \in EnvsFor(Envs) :
       LET call == PendingTrade(threads[t])
           r == executeTrade(config, call.from, call.to, call.amount, 0, env,
                             socketConnected)
       IN Apply(t, RoutedAfterTrade(AfterExecuteTrade(World(t), r), r))
  /\ UNCHANGED <<config, lifecycle, now, gets, ops>>

\* The 5 s delay between two trades of a batch elapses.
DelayStep(t) ==
  /\ threads[t].pc = "delay"
  /\ Apply(t, BatchCallTrade(World(t), threads[t].i + 1))
  /\ UNCHANGED <<config, lifecycle, now, gets, ops>>

-----------------------------------------------------------------------------
(* Rebalance and arbitrage ticks                                           *)

\* getBalances answered: with an inventory, or (failed) with an error the
\* cycle's catch logs.
\* A cycle that forgets the last balance when the fetch fails.
CycleAfterBalancesForgets(w, failed, assets) ==
  IF failed THEN CycleReturn([w EXCEPT !.lastLog = LogCycleFailed,
                                       !.lastBalanceCheck = EmptySummary])
  ELSE LET balances == getBalances(config, assets)
           w1 == [w EXCEPT !.lastBalanceCheck = balances]
           trades == getTokensToTrade(config, balances)
       IN IF Len(trades) = 0 THEN CycleReturn(w1) ELSE BatchBegin(w1, trades)

CycleAfterBalances(w, failed, assets) ==
  IF failed THEN CycleReturn([w EXCEPT !.lastLog = LogCycleFailed])
  ELSE LET balances == getBalances(config, assets)
           w1 == [w EXCEPT !.lastBalanceCheck = balances]
           trades == getTokensToTrade(config, balances)
       IN IF Len(trades) = 0 THEN CycleReturn(w1) ELSE BatchBegin(w1, trades)

CycleAfterRefetch(w, failed, assets) ==
  IF failed THEN CycleReturn([w EXCEPT !.lastLog = LogCycleFailed])
  ELSE CycleReturn([w EXCEPT !.lastBalanceCheck = getBalances(config, assets)])

InventoryTokens(gala, silk, gusdc, gwbtc) ==
  (IF gala = Undef THEN <<>> ELSE <<Asset(FALSE, "GALA", "Unit", "none", "none", "GALA", gala)>>)
  \o (IF silk = Undef THEN <<>> ELSE <<Asset(TRUE, "SILK", "Unit", "none", "none", "", silk)>>)
  \o (IF gusdc = Undef THEN <<>> ELSE <<Asset(FALSE, "", "", "", "", "GUSDC", gusdc)>>)
  \o (IF gwbtc = Undef THEN <<>> ELSE <<Asset(TRUE, "GWBTC", "Unit", "none", "none", "GWBTC", gwbtc)>>)

Inventory(gala, silk, gusdc, gwbtc) ==
  LET tokens == InventoryTokens(gala, silk, gusdc, gwbtc) IN
  [tokens |-> tokens, count |-> Len(tokens)]

Inventories ==
  { Inventory(40 * Unit, 0, 50 * Unit, Undef),
    Inventory(250 * Unit, Undef, Undef, Undef),
    Inventory(150 * Unit, 0, Undef, Undef) }

BalancesStep(t, Invs) ==
  /\ threads[t].pc = "balances"
  /\ \/ \E assets \in Invs : Apply(t, CycleAfterBalances(World(t), FALSE, assets))
     \/ Apply(t, CycleAfterBalances(World(t), TRUE, <<>>))
  /\ UNCHANGED <<config, lifecycle, now, gets, ops>>

RefetchStep(t, Invs) ==
  /\ threads[t].pc = "refetch"
  /\ \/ \E assets \in Invs : Apply(t, CycleAfterRefetch(World(t), FALSE, assets))
     \/ Apply(t, CycleAfterRefetch(World(t), TRUE, <<>>))
  /\ UNCHANGED <<config, lifecycle, now, gets, ops>>

ArbitrageResult(opportunity, success, actualOutputAmount, error) ==
  [opportunity |-> opportunity, success |-> success,
   actualOutputAmount |-> actualOutputAmount,
   actualProfit |-> IF success THEN actualOutputAmount - opportunity.inputAmount ELSE Undef,
   error |-> error]

DefaultArbitrageMaxTradeSize == 100

\* The opportunities a scan can return for the base token: none, or the
\* two-hop cycle over the two registered pools when both are cached.
ScanOutcomes(cache) ==
  LET key(k) == getCacheKey(RegisteredPools[k].token0, RegisteredPools[k].token1,
                            RegisteredPools[k].fee)
      base == config.preferredTokenKey
      other == IF base = GALA THEN SILK ELSE GALA
      size == DefaultArbitrageMaxTradeSize * Unit
  IN {<<>>} \cup
     (IF base \in {GALA, SILK} /\ \A k \in 1..Len(RegisteredPools) : key(k) \in DOMAIN cache
      THEN { <<Opportunity(<<base, other, base>>, <<10000, 3000>>, size,
                           MulDiv(size, 103, 100), MulDiv(size, 3, 100))>> }
      ELSE {})

\* executeArbitrageScan, after recordExecution or the dry-run log.
ScanAfterExecution(w) ==
  ScanReturn([w EXCEPT !.poolCache = clearExpiredCache(@, now)])

\* executeArbitrageScan, after findArbitrageOpportunities returned.
ScanAfterFind(w, opportunities) ==
  LET w1 == [w EXCEPT !.detectionHistory = @ \o opportunities,
                      !.lastArbitrageScanTime = TRUE] IN
  IF Len(opportunities) = 0 THEN ScanReturn(w1)
  ELSE IF config.enableTrading
       THEN [w1 EXCEPT !.th.pc = "arbTrade", !.th.opp = opportunities[1], !.th.p = 1,
                       !.th.amount = opportunities[1].inputAmount]
       ELSE ScanAfterExecution(w1)

\* Which of the preload's fetches fail, when they are issued.
FetchFailures == { {}, {2} }

ScanStep(t) ==
  /\ threads[t].pc = "scanning"
  /\ \E failing \in FetchFailures :
       LET w1 == Preload(World(t), 1, failing, now) IN
       \E opportunities \in ScanOutcomes(w1.poolCache) :
         Apply(t, ScanAfterFind(w1, opportunities))
  /\ UNCHANGED <<config, lifecycle, now, gets, ops>>

\* executeArbitrageOpportunity: each hop is a direct swap on the hop's fee
\* tier; the first failing hop ends the execution.
ArbAfterTrade(w, r) ==
  LET th == w.th IN
  IF r.threw \/ ~r.result.success
  THEN ScanAfterExecution(
         [w EXCEPT !.executionHistory =
            Append(@, ArbitrageResult(th.opp, FALSE, Undef, r.result.error))])
  ELSE IF th.p = Len(th.opp.fees)
  THEN ScanAfterExecution(
         [w EXCEPT !.executionHistory =
            Append(@, ArbitrageResult(th.opp, TRUE, r.result.amountOut, NoErr))])
  ELSE [w EXCEPT !.th.p = @ + 1, !.th.amount = r.result.amountOut]

ArbTradeStep(t, Envs) ==
  /\ threads[t].pc = "arbTrade"
  /\ \E env \in EnvsFor(Envs) :
       LET th == threads[t]
           r == executeTrade(config, th.opp.tokens[th.p], th.opp.tokens[th.p + 1],
                             th.amount, th.opp.fees[th.p], env, socketConnected)
       IN Apply(t, ArbAfterTrade(AfterExecuteTrade(World(t), r), r))
  /\ UNCHANGED <<config, lifecycle, now, gets, ops>>

-----------------------------------------------------------------------------
(* The public calls                                                        *)

NoTimer == 0                \* intervalId is null

Config(enableTrading, enableArbitrage, preferredTokenKey) ==
  [enableTrading |-> enableTrading, enableArbitrage |-> enableArbitrage,
   preferredTokenKey |-> preferredTokenKey, galaTokenKey |-> GALA,
   minimumGalaBalance |-> DefaultMinimumGalaBalance * Unit,
   maxSlippage |-> DefaultMaxSlippage,
   tradeAmountPercentage |-> DefaultTradeAmountPercentage]

Configs ==
  { Config(trading, arbitrage, preferred) :
      trading \in BOOLEAN, arbitrage \in BOOLEAN, preferred \in {GALA, SILK} }

MaxIntents == 2

\* The intents a caller hands to executeTradesForPreferredToken.
IntentPool ==
  { Intent(TokenBalance(GUSDC, "GUSDC", 50 * Unit, 8), GALA, 5 * Unit),
    Intent(TokenBalance(GUSDC, "GUSDC", 50 * Unit, 8), SILK, 5 * Unit),
    Intent(TokenBalance(GUSDT, "GUSDT", 20, 8), GALA, 2) }

RECURSIVE SeqsUpTo(_, _)
SeqsUpTo(S, n) ==
  IF n = 0 THEN {<<>>}
  ELSE LET shorter == SeqsUpTo(S, n - 1) IN
       shorter \cup { Append(q, x) : q \in {r \in shorter : Len(r) = n - 1}, x \in S }

BatchInputs == SeqsUpTo(IntentPool, MaxIntents)

DirectPairs == { <<GUSDC, GALA>> }
TradePairs == { <<GUSDC, SILK>>, <<GWBTC, GALA>> }
TradeAmounts == { 5 * Unit }

\* executeTrade called by itself; the history is written when it ends.
CallDirect(Envs) ==
  /\ Begun
  /\ \E pair \in DirectPairs, amount \in TradeAmounts, env \in EnvsFor(Envs) :
       LET r == executeTrade(config, pair[1], pair[2], amount, 0, env, socketConnected)
           w == AfterExecuteTrade(World(1), r)
       IN Apply(1, [w EXCEPT !.lastReturn =
                      [fn |-> "direct", threw |-> r.threw, error |-> r.result.error,
                       results |-> IF r.threw THEN <<>> ELSE <<r.result>>,
                       given |-> <<>>, trades |-> <<>>, executed |-> <<>>,
                       env |-> env]])
  /\ UNCHANGED <<config, lifecycle, now, gets>>

CallRouted(t) ==
  /\ Begun
  /\ FreeSlot(t)
  /\ \E pair \in TradePairs, amount \in TradeAmounts :
       Apply(t, RoutedBegin([World(t) EXCEPT !.th = NewThread("routed")],
                            pair[1], pair[2], amount))
  /\ UNCHANGED <<config, lifecycle, now, gets>>

CallBatch(t) ==
  /\ Begun
  /\ FreeSlot(t)
  /\ \E trades \in BatchInputs :
       Apply(t, BatchBegin([World(t) EXCEPT !.th = NewThread("batch")], trades))
  /\ UNCHANGED <<config, lifecycle, now, gets>>

\* executeTradeCycle up to its first await.
CycleBegin(w) == [w EXCEPT !.th.pc = "balances"]

\* A rebalance tick: the callback of the trade timer, or a direct call.
RebalanceTick(t) ==
  /\ Begun
  /\ FreeSlot(t)
  /\ Apply(t, CycleBegin([World(t) EXCEPT !.th = NewThread("cycle")]))
  /\ UNCHANGED <<config, lifecycle, now, gets>>

ArbitrageTick(t) ==
  /\ Begun
  /\ FreeSlot(t)
  /\ Apply(t, ScanBegin([World(t) EXCEPT !.th = NewThread("scan")]))
  /\ UNCHANGED <<config, lifecycle, now, gets>>

MaxTime == 3

\* Time passes.
Tick ==
  /\ now < MaxTime
  /\ now' = now + 1
  /\ UNCHANGED <<config, ops, execVars, engineVars, arbVars, poolCache, fetchLog, gets>>

-----------------------------------------------------------------------------
(* MostInterestingTraderBot.start and stop, and the timers                 *)

MaxCalls == 3

\* start() without the isRunning guard of lines 536-539.
StartBeginUnguarded(w) ==
  CycleBegin([w EXCEPT !.th = NewThread("start"), !.isRunning = TRUE,
                       !.lastLog = LogStarting])

\* start() setting the trade timer before its first trade cycle.
StartBeginTimerFirst(w) ==
  IF w.isRunning THEN [w EXCEPT !.lastLog = LogAlreadyRunning]
  ELSE LET w1 == [SetInterval(w, "cycle") EXCEPT !.intervalId = w.nextTimerId] IN
       [w1 EXCEPT !.th = [NoThread EXCEPT !.entry = "start", !.pc = "balances"],
                  !.isRunning = TRUE, !.lastLog = LogStarting]

\* start() up to its first await.
StartBegin(w) ==
  IF w.isRunning THEN [w EXCEPT !.lastLog = LogAlreadyRunning]
  ELSE CycleBegin([w EXCEPT !.th = NewThread("start"), !.isRunning = TRUE,
                            !.lastLog = LogStarting])

StartCall(t) ==
  /\ Len(lifecycle) < MaxCalls
  /\ FreeSlot(t)
  /\ Apply(t, StartBegin(World(t)))
  /\ lifecycle' = Append(lifecycle, "start")
  /\ UNCHANGED <<config, now, gets, ops>>

\* clearInterval(id) when id is not null.
ClearInterval(set, id) ==
  IF id = NoTimer THEN set ELSE { tm \in set : tm.id # id }

StopCall ==
  /\ Len(lifecycle) < MaxCalls
  /\ lifecycle' = Append(lifecycle, "stop")
  /\ IF ~isRunning
     THEN /\ lastLog' = LogNotRunning
          /\ UNCHANGED <<isRunning, intervalId, arbitrageIntervalId, timers>>
     ELSE /\ isRunning' = FALSE
          /\ timers' = ClearInterval(ClearInterval(timers, intervalId), arbitrageIntervalId)
          /\ intervalId' = NoTimer
          /\ arbitrageIntervalId' = NoTimer
          /\ lastLog' = LogStopped
  /\ UNCHANGED <<config, ops, execVars, arbVars, cacheVars, nextTimerId, lastBalanceCheck,
                 lastTradeTime, lastArbitrageScanTime>>

\* A timer the runtime holds comes due and its callback starts.
TimerFire(t) ==
  \E tm \in timers :
    IF tm.kind = "cycle" THEN RebalanceTick(t) ELSE ArbitrageTick(t)

-----------------------------------------------------------------------------
(* PoolDataManager.getCompositePoolData                                    *)

MaxCallers == 2

Getter(pc, token0, token1, fee, key, version, result, outcome) ==
  [pc |-> pc, token0 |-> token0, token1 |-> token1, fee |-> fee, key |-> key,
   version |-> version, result |-> result, outcome |-> outcome]

IdleGetter == Getter("idle", "", "", 0, "", 0, NoData, "none")

CacheTokens == {GALA, SILK}
CacheFees == {3000}
MaxFetches == 3

\* getCompositePoolData up to its first await: a live entry is returned at
\* once, otherwise the fetch is issued.
GetCall(c) ==
  /\ gets[c].pc = "idle"
  /\ \E token0 \in CacheTokens, fee \in CacheFees : \E token1 \in CacheTokens \ {token0} :
       LET cacheKey == getCacheKey(token0, token1, fee) IN
       IF CacheHit(poolCache, cacheKey, now)
       THEN /\ gets' = [gets EXCEPT ![c] = Getter("idle", token0, token1, fee, cacheKey, 0,
                                                  poolCache[cacheKey].data, "cached")]
            /\ UNCHANGED fetchLog
       ELSE /\ Len(fetchLog) < MaxFetches
            /\ fetchLog' = Append(fetchLog, cacheKey)
            /\ gets' = [gets EXCEPT ![c] = Getter("fetching", token0, token1, fee, cacheKey,
                                                  Len(fetchLog) + 1, NoData, "none")]
  /\ UNCHANGED <<config, ops, execVars, engineVars, arbVars, poolCache, now>>

\* The fetch of caller c answers: the entry is written and the data returned.
FetchDone(c) ==
  /\ gets[c].pc = "fetching"
  /\ LET g == gets[c]
         poolData == PoolData(g.token0, g.token1, g.fee, g.version)
     IN /\ poolCache' = CacheSet(poolCache, g.key, CachedPool(poolData, now + CacheTTL))
        /\ gets' = [gets EXCEPT ![c] = [g EXCEPT !.pc = "idle", !.result = poolData,
                                                 !.outcome = "fetched"]]
  /\ UNCHANGED <<config, ops, execVars, engineVars, arbVars, now, fetchLog>>

\* The fetch of caller c fails: getCompositePoolData throws, nothing is cached.
FetchFail(c) ==
  /\ gets[c].pc = "fetching"
  /\ gets' = [gets EXCEPT ![c] = [@ EXCEPT !.pc = "idle", !.result = NoData,
                                           !.outcome = "threw"]]
  /\ UNCHANGED <<config, ops, execVars, engineVars, arbVars, poolCache, now, fetchLog>>

ClearExpired ==
  /\ poolCache' = clearExpiredCache(poolCache, now)
  /\ poolCache' # poolCache
  /\ UNCHANGED <<config, ops, execVars, engineVars, arbVars, now, gets, fetchLog>>

-----------------------------------------------------------------------------
(* CircularPathFinder                                                      *)

DefaultMinLiquidity == 1000

CircularPath(tokens, pools, fees, hops) ==
  [tokens |-> tokens, pools |-> pools, fees |-> fees, hops |-> hops]

\* A loop that starts at another iteration once a search was made.
FlattenUnstable(pieces) ==
  LET turned == IF finder.runs = 0 \/ pieces = <<>> THEN pieces
                ELSE Tail(pieces) \o <<Head(pieces)>>
      upTo[k \in 0..Len(turned)] == IF k = 0 THEN <<>> ELSE upTo[k - 1] \o turned[k]
  IN upTo[Len(turned)]

\* paths.push(...) over a loop: the pieces each iteration pushed, in order.
Flatten(pieces) ==
  LET upTo[k \in 0..Len(pieces)] == IF k = 0 THEN <<>> ELSE upTo[k - 1] \o pieces[k]
  IN upTo[Len(pieces)]

\* A map that holds only the token0 -> token1 edge of each pool.
buildAdjacencyMapOneWay(pools) ==
  [token \in { pools[k].token0 : k \in 1..Len(pools) } \cup
             { pools[k].token1 : k \in 1..Len(pools) } \cup {""} |->
     SelectSeq([k \in 1..Len(pools) |-> [token |-> pools[k].token1, pool |-> pools[k]]],
               LAMBDA edge : edge.pool.token0 = token)]

\* The edges of a token, in the order the pools inserted them; a token no
\* pool names has none (adjacencyMap.get(token) || []).
buildAdjacencyMap(pools) ==
  [token \in { pools[k].token0 : k \in 1..Len(pools) } \cup
             { pools[k].token1 : k \in 1..Len(pools) } \cup {""} |->
     Flatten([k \in 1..Len(pools) |->
       (IF pools[k].token0 = token
        THEN <<[token |-> pools[k].token1, pool |-> pools[k]]>> ELSE <<>>) \o
       (IF pools[k].token1 = token
        THEN <<[token |-> pools[k].token0, pool |-> pools[k]]>> ELSE <<>>)])]

findTwoHopCycles(baseToken, adjacencyMap) ==
  LET Edges(token) == adjacencyMap[IF token \in DOMAIN adjacencyMap THEN token ELSE ""]
      neighbors == Edges(baseToken)
  IN Flatten([i \in 1..Len(neighbors) |->
       LET tokenB == neighbors[i].token
           pool1 == neighbors[i].pool
           neighborsOfB == Edges(tokenB)
       IN Flatten([j \in 1..Len(neighborsOfB) |->
            LET returnToken == neighborsOfB[j].token
                pool2 == neighborsOfB[j].pool
            IN IF returnToken = baseToken /\ pool1 # pool2
               THEN <<CircularPath(<<baseToken, tokenB, baseToken>>, <<pool1, pool2>>,
                                   <<pool1.fee, pool2.fee>>, 2)>>
               ELSE <<>>])])

findThreeHopCycles(baseToken, adjacencyMap) ==
  LET Edges(token) == adjacencyMap[IF token \in DOMAIN adjacencyMap THEN token ELSE ""]
      neighbors == Edges(baseToken)
  IN Flatten([i \in 1..Len(neighbors) |->
       LET tokenB == neighbors[i].token
           pool1 == neighbors[i].pool
           neighborsOfB == Edges(tokenB)
       IN IF tokenB = baseToken THEN <<>>
          ELSE Flatten([j \in 1..Len(neighborsOfB) |->
            LET tokenC == neighborsOfB[j].token
                pool2 == neighborsOfB[j].pool
                neighborsOfC == Edges(tokenC)
            IN IF tokenC = baseToken \/ tokenC = tokenB THEN <<>>
               ELSE Flatten([k \in 1..Len(neighborsOfC) |->
                 LET returnToken == neighborsOfC[k].token
                     pool3 == neighborsOfC[k].pool
                 IN IF returnToken = baseToken
                    THEN <<CircularPath(<<baseToken, tokenB, tokenC, baseToken>>,
                                        <<pool1, pool2, pool3>>,
                                        <<pool1.fee, pool2.fee, pool3.fee>>, 3)>>
                    ELSE <<>>])])])

findFourHopCycles(baseToken, adjacencyMap) ==
  LET Edges(token) == adjacencyMap[IF token \in DOMAIN adjacencyMap THEN token ELSE ""]
      neighbors == Edges(baseToken)
  IN Flatten([i \in 1..Len(neighbors) |->
       LET tokenB == neighbors[i].token
           pool1 == neighbors[i].pool
           neighborsOfB == Edges(tokenB)
       IN IF tokenB = baseToken THEN <<>>
          ELSE Flatten([j \in 1..Len(neighborsOfB) |->
            LET tokenC == neighborsOfB[j].token
                pool2 == neighborsOfB[j].pool
                neighborsOfC == Edges(tokenC)
            IN IF tokenC = baseToken \/ tokenC = tokenB THEN <<>>
               ELSE Flatten([k \in 1..Len(neighborsOfC) |->
                 LET tokenD == neighborsOfC[k].token
                     pool3 == neighborsOfC[k].pool
                     neighborsOfD == Edges(tokenD)
                 IN IF tokenD = baseToken \/ tokenD = tokenB \/ tokenD = tokenC
                    THEN <<>>
                    ELSE Flatten([m \in 1..Len(neighborsOfD) |->
                      LET returnToken == neighborsOfD[m].token
                          pool4 == neighborsOfD[m].pool
                      IN IF returnToken = baseToken
                         THEN <<CircularPath(
                                  <<baseToken, tokenB, tokenC, tokenD, baseToken>>,
                                  <<pool1, pool2, pool3, pool4>>,
                                  <<pool1.fee, pool2.fee, pool3.fee, pool4.fee>>, 4)>>
                         ELSE <<>>])])])])

\* The search without its maxHops tests.
findCircularPathsOfAnyLength(baseToken, maxHops, availablePools, minLiquidity) ==
  LET IsLiquid(pool) == pool.liquidity > minLiquidity
      adjacencyMap == buildAdjacencyMap(SelectSeq(availablePools, IsLiquid))
  IN findTwoHopCycles(baseToken, adjacencyMap)
     \o findThreeHopCycles(baseToken, adjacencyMap)
     \o findFourHopCycles(baseToken, adjacencyMap)

findCircularPaths(baseToken, maxHops, availablePools, minLiquidity) ==
  LET IsLiquid(pool) == pool.liquidity > minLiquidity
      liquidPools == SelectSeq(availablePools, IsLiquid)
      adjacencyMap == buildAdjacencyMap(liquidPools)
  IN (IF maxHops >= 2 THEN findTwoHopCycles(baseToken, adjacencyMap) ELSE <<>>)
     \o (IF maxHops >= 3 THEN findThreeHopCycles(baseToken, adjacencyMap) ELSE <<>>)
     \o (IF maxHops >= 4 THEN findFourHopCycles(baseToken, adjacencyMap) ELSE <<>>)

MaxPools == 4
MaxHopsAsked == 4

\* One search over the pools the cache holds: each pool once, in any order,
\* token0 and token1 different.  The last pool's liquidity is the threshold.
FindPaths ==
  LET Pool(token0, token1, fee, liquidity) ==
        [token0 |-> token0, token1 |-> token1, fee |-> fee, liquidity |-> liquidity]
      CachedPools ==
        { Pool(GALA, SILK, 500, 5000), Pool(GALA, SILK, 3000, 9000),
          Pool(SILK, GUSDC, 3000, 5000), Pool(GUSDC, GALA, 10000, 2000),
          Pool(GUSDC, GWBTC, 3000, 4000), Pool(GWBTC, GALA, 3000, 3000),
          Pool(SILK, GWBTC, 500, DefaultMinLiquidity) }
      Distinct(q) == \A i, j \in 1..Len(q) : i # j => q[i] # q[j]
  IN /\ finder.runs = 0
     /\ \E baseToken \in {GALA, SILK}, maxHops \in 1..MaxHopsAsked,
           availablePools \in { q \in SeqsUpTo(CachedPools, MaxPools) : Distinct(q) } :
          finder' = [baseToken |-> baseToken, maxHops |-> maxHops,
                     availablePools |-> availablePools,
                     paths |-> findCircularPaths(baseToken, maxHops, availablePools,
                                                 DefaultMinLiquidity),
                     runs |-> 1, repeat |-> <<>>]
     /\ UNCHANGED <<config, ops, execVars, engineVars, arbVars, cacheVars, planVars,
                    detection, pending, server>>

\* The same search once more.
FindAgain ==
  /\ finder.runs = 1
  /\ finder' = [finder EXCEPT
                  !.repeat = findCircularPaths(finder.baseToken, finder.maxHops,
                                               finder.availablePools,
                                               DefaultMinLiquidity),
                  !.runs = 2]
  /\ UNCHANGED <<config, ops, execVars, engineVars, arbVars, cacheVars, planVars,
                 detection, pending, server>>

-----------------------------------------------------------------------------
(* ProfitCalculator (get_user_positions.ts) and the scan that uses it      *)

\* One percent, in the units of profitPercentage (0.0001 %).
Percent == 100 * 100

\* get_user_positions.ts 23-33.  timestamp is the order of calculation.
ArbitrageOpportunity(path, inputAmount, expectedOutputAmount, grossProfit,
                     netProfit, profitPercentage, timestamp) ==
  [path |-> path, inputAmount |-> inputAmount,
   expectedOutputAmount |-> expectedOutputAmount, grossProfit |-> grossProfit,
   netProfit |-> netProfit, profitPercentage |-> profitPercentage,
   timestamp |-> timestamp]

\* The net profit as the gross profit less 0.5 per hop.
calculateProfitabilityLessGas(path, inputAmount, quotes, time) ==
  IF \E i \in 1..path.hops : quotes[i] = Undef
  THEN Thrown("Failed to quote hop")
  ELSE LET expectedOutputAmount == Abs(quotes[path.hops])
           grossProfit == expectedOutputAmount - inputAmount
           netProfit == grossProfit - path.hops * (Unit \div 2)
       IN Normal(ArbitrageOpportunity(path, inputAmount, expectedOutputAmount,
                                      grossProfit, netProfit,
                                      netProfit \div (inputAmount \div Unit), time))

\* get_user_positions.ts 47-117.  quotes[i] is the amountOut the quote of
\* hop i reports, Undef when the quote throws.  inputAmount is a whole
\* number of tokens: netProfit / inputAmount x 100 in units of 0.0001 % is
\* netProfit / (inputAmount / Unit), rounded down.
calculateProfitability(path, inputAmount, quotes, time) ==
  IF \E i \in 1..path.hops : quotes[i] = Undef
  THEN Thrown("Failed to quote hop")
  ELSE LET expectedOutputAmount == Abs(quotes[path.hops])
           grossProfit == expectedOutputAmount - inputAmount
           netProfit == MulDiv(grossProfit, 98, 100)
           profitPercentage == netProfit \div (inputAmount \div Unit)
       IN Normal(ArbitrageOpportunity(path, inputAmount, expectedOutputAmount,
                                      grossProfit, netProfit, profitPercentage, time))

\* get_user_positions.ts 122-139: a path whose calculation throws is skipped.
RECURSIVE calculateMultiplePaths(_, _, _, _)
calculateMultiplePaths(paths, inputAmount, quotes, k) ==
  IF k > Len(paths) THEN <<>>
  ELSE LET r == calculateProfitability(paths[k], inputAmount, quotes[k], k) IN
       (IF r.threw THEN <<>> ELSE <<r.value>>)
       \o calculateMultiplePaths(paths, inputAmount, quotes, k + 1)

\* get_user_positions.ts 144-152.
filterProfitable(opportunities, minProfitPercent) ==
  LET Kept(opp) == opp.netProfit > 0 /\ opp.profitPercentage >= minProfitPercent
  IN SelectSeq(opportunities, Kept)

\* A sort that puts the later of two equally profitable opportunities first.
RECURSIVE sortByProfitabilityUnstable(_)
sortByProfitabilityUnstable(opportunities) ==
  IF opportunities = <<>> THEN <<>>
  ELSE LET best == CHOOSE k \in 1..Len(opportunities) :
                     \A j \in 1..Len(opportunities) :
                       \/ opportunities[j].profitPercentage
                            < opportunities[k].profitPercentage
                       \/ /\ opportunities[j].profitPercentage
                               = opportunities[k].profitPercentage
                          /\ j <= k
           rest == [i \in 1..(Len(opportunities) - 1) |->
                      IF i < best THEN opportunities[i] ELSE opportunities[i + 1]]
       IN <<opportunities[best]>> \o sortByProfitabilityUnstable(rest)

\* get_user_positions.ts 157-159: Array.prototype.sort is stable, so equally
\* profitable opportunities keep the order they came in.
RECURSIVE sortByProfitability(_)
sortByProfitability(opportunities) ==
  IF opportunities = <<>> THEN <<>>
  ELSE LET n == Len(opportunities)
           RECURSIVE Insert(_, _)
           Insert(sorted, opp) ==
             IF sorted = <<>> THEN <<opp>>
             ELSE IF Head(sorted).profitPercentage < opp.profitPercentage
                  THEN <<opp>> \o sorted
                  ELSE <<Head(sorted)>> \o Insert(Tail(sorted), opp)
       IN Insert(sortByProfitability(SubSeq(opportunities, 1, n - 1)),
                 opportunities[n])

\* ArbitrageDetector.findArbitrageOpportunities from the paths on
\* (arbitrage-detector.ts 70-106): the paths of the last search are
\* quoted hop by hop, the opportunities filtered, sorted and remembered.
\* A path's quotes all throw, or its last hop reports the input plus 1.5 %
\* or, with a minus sign, plus 3 %; under a threshold of 0 it reports the
\* input itself instead of throwing.
FindArbitrageOpportunities ==
  LET Scan(amount, minProfitPercent) ==
        [amount |-> amount, minProfitPercent |-> minProfitPercent,
         finals |-> { IF minProfitPercent = 0 THEN amount ELSE Undef,
                      amount + (amount \div 200) * 3,
                      0 - (amount + (amount \div 100) * 3) }]
      Scans == { Scan(100 * Unit, 1 * Percent), Scan(100 * Unit, 2 * Percent),
                 Scan(100 * Unit, 0), Scan(50 * Unit, 1 * Percent) }
      QuotesOf(path, amount, final) ==
        [i \in 1..path.hops |->
           IF final = Undef THEN Undef ELSE IF i = path.hops THEN final ELSE amount]
  IN /\ finder.runs = 1
     /\ detection.scans = 0
     /\ \E scan \in Scans :
        \E finals \in [1..Len(finder.paths) -> scan.finals] :
          LET quotes == [k \in 1..Len(finder.paths) |->
                           QuotesOf(finder.paths[k], scan.amount, finals[k])]
              opportunities ==
                IF Len(finder.paths) = 0 THEN <<>>
                ELSE calculateMultiplePaths(finder.paths, scan.amount, quotes, 1)
              sortedOpportunities ==
                sortByProfitability(
                  filterProfitable(opportunities, scan.minProfitPercent))
          IN /\ detection' = [scans |-> 1, inputAmount |-> scan.amount,
                              minProfitPercent |-> scan.minProfitPercent,
                              opportunities |-> opportunities,
                              returned |-> sortedOpportunities,
                              quotes |-> quotes, failed |-> {}]
             /\ detectionHistory' = detectionHistory \o sortedOpportunities
     /\ UNCHANGED <<config, ops, execVars, engineVars, executionHistory, cacheVars,
                    planVars, finder, pending, server>>

\* ArbitrageDetector.findArbitrageOpportunities as a whole
\* (arbitrage-detector.ts 43-111): the registry's pools are preloaded, the
\* cycles of the cached pools searched, quoted, filtered, sorted and
\* remembered.  Any of the preload's fetches may fail; the cached pools come
\* in any order; a path's quotes all throw, or its last hop reports the
\* input itself, or the input plus 3 %.  detection.failed and
\* detection.quotes keep what the transport answered.
ScanForOpportunities ==
  LET amount == DefaultArbitrageMaxTradeSize * Unit
      Liquid(data) ==
        [token0 |-> data.token0, token1 |-> data.token1, fee |-> data.fee,
         liquidity |-> 5 * DefaultMinLiquidity]
      Orders(S) ==
        { q \in [1..Cardinality(S) -> S] : \A i, j \in 1..Cardinality(S) : i # j => q[i] # q[j] }
      QuotesOf(path, final) ==
        [i \in 1..path.hops |->
           IF final = Undef THEN Undef ELSE IF i = path.hops THEN final ELSE amount]
  IN /\ Begun
     /\ \E failing \in SUBSET (1..Len(RegisteredPools)) :
        \E w1 \in { Preload(World(1), 1, failing, now) } :
        \E cached \in Orders(getAllCachedPools(w1.poolCache)) :
        \E availablePools \in { [k \in 1..Len(cached) |-> Liquid(cached[k])] } :
        \E paths \in { findCircularPaths(config.preferredTokenKey, 3, availablePools,
                                        DefaultMinLiquidity) } :
        \E finals \in [1..Len(paths) -> {Undef, amount, amount + (amount \div 100) * 3}] :
          LET quotes == [k \in 1..Len(paths) |-> QuotesOf(paths[k], finals[k])]
              opportunities ==
                IF Len(paths) = 0 THEN <<>>
                ELSE calculateMultiplePaths(paths, amount, quotes, 1)
              sortedOpportunities ==
                sortByProfitability(filterProfitable(opportunities, 1 * Percent))
          IN /\ finder' = [baseToken |-> config.preferredTokenKey, maxHops |-> 3,
                           availablePools |-> availablePools, paths |-> paths,
                           runs |-> 1, repeat |-> <<>>]
             /\ detection' = [scans |-> detection.scans + 1, inputAmount |-> amount,
                              minProfitPercent |-> 1 * Percent,
                              opportunities |-> opportunities,
                              returned |-> sortedOpportunities,
                              quotes |-> quotes, failed |-> failing]
             /\ Apply(1, [w1 EXCEPT !.detectionHistory = @ \o sortedOpportunities])
     /\ UNCHANGED <<config, lifecycle, now, gets, planVars, pending, server>>

-----------------------------------------------------------------------------
(* BalanceManager called by itself                                         *)

MaxAssets == 4

\* getBalances: the transport answers with up to MaxAssets assets.  An asset
\* may come twice, and two assets have neither a collection nor a symbol.
GetBalances ==
  LET Fetched ==
        { Asset(FALSE, "GALA", "Unit", "none", "none", "GALA", 150 * Unit),
          Asset(FALSE, "GALA", "Unit", "none", "none", "GALA", 40 * Unit),
          Asset(FALSE, "GALA", "Unit", "none", "none", "GALA", 250 * Unit),
          Asset(FALSE, "GALA", "Unit", "none", "none", "GALA", 25),
          Asset(TRUE, "SILK", "Unit", "none", "none", "", 0),
          Asset(FALSE, "", "", "", "", "GUSDC", 50 * Unit),
          Asset(FALSE, "", "", "", "", "GUSDC", 5),
          Asset(TRUE, "GWBTC", "Unit", "none", "none", "GWBTC", 100),
          Asset(FALSE, "", "", "", "", "", 7 * Unit),
          Asset(FALSE, "", "", "", "", "", 3 * Unit) }
  IN /\ userAssets.tokens = <<>>
     /\ ~planned
     /\ \E tokens \in SeqsUpTo(Fetched, MaxAssets) :
          LET answer == [tokens |-> tokens, count |-> Len(tokens)] IN
          /\ userAssets' = answer
          /\ balanceSummary' = getBalances(config, answer)
     /\ UNCHANGED <<config, ops, execVars, engineVars, arbVars, cacheVars,
                    tradeIntents, planned, finder, detection,
                    pending, server>>

GetTokensToTrade ==
  /\ ~planned
  /\ tradeIntents' = getTokensToTrade(config, balanceSummary)
  /\ planned' = TRUE
  /\ UNCHANGED <<config, ops, execVars, engineVars, arbVars, cacheVars,
                 userAssets, balanceSummary, finder, detection,
                 pending, server>>

-----------------------------------------------------------------------------
(* TradingStrategy.executeTrade across its wait for the transaction        *)

\* transactionTimeoutMs, in ticks of the model's clock.
TransactionTimeout == 2

NoPending ==
  [pc |-> "none", fromToken |-> "", toToken |-> "", amount |-> 0, env |-> NoEnv,
   deadline |-> 0]

\* executeTrade returns to its caller (profit-calculator.ts 361-364); how
\* says how the wait ended: "none" when the call never came to wait.
DirectReturns(w, r, env, how) ==
  [w EXCEPT !.lastReturn =
     [fn |-> "direct", threw |-> r.threw, error |-> r.result.error,
      results |-> IF r.threw THEN <<>> ELSE <<r.result>>,
      given |-> <<>>, trades |-> <<>>, executed |-> <<>>,
      env |-> [env EXCEPT !.wait = how]]]

\* executeTrade up to 'await pendingTx.wait()' (profit-calculator.ts
\* 248-342): a call that submitted its swap is left waiting, with the
\* waiter's timer set to transactionWaitTimeoutMs (186-198); any other call
\* ends in this step.
SubmitTrade ==
  /\ Begun
  /\ pending.pc = "none"
  /\ now + TransactionTimeout <= MaxTime
  /\ \E pair \in DirectPairs, amount \in TradeAmounts, env \in EnvsFor(TradeEnvs) :
       LET answered == [env EXCEPT !.wait = "ok"]
           r == executeTrade(config, pair[1], pair[2], amount, 0, answered,
                             socketConnected)
       IN IF config.enableTrading /\ r.swaps # <<>> /\ env.submit = "ok"
          THEN /\ pending' = [pc |-> "waiting", fromToken |-> pair[1],
                              toToken |-> pair[2], amount |-> amount,
                              env |-> answered,
                              deadline |-> now + TransactionTimeout]
               /\ Apply(1, [World(1) EXCEPT !.swapLog = @ \o r.swaps,
                                            !.socketConnected = r.connected])
          ELSE /\ pending' = pending
               /\ Apply(1, DirectReturns(AfterExecuteTrade(World(1), r), r, env, "none"))
  /\ UNCHANGED <<config, lifecycle, now, gets>>

\* pendingTx.wait() settles (profit-calculator.ts 344-355): resolved ("ok"),
\* or rejected by a failure notification ("fail") or by the waiter's timer
\* ("timeout"); the result is stored and returned (361-364).
WaitEnds(how) ==
  LET env == [pending.env EXCEPT !.wait = IF how = "ok" THEN "ok" ELSE "fail"] IN
  \E r \in { executeTrade(config, pending.fromToken, pending.toToken,
                          pending.amount, 0, env, socketConnected) } :
  \E w \in { [World(1) EXCEPT !.tradeHistory =
                                IF r.recorded THEN Append(@, r.result) ELSE @] } :
  \E returned \in { DirectReturns(w, r, pending.env, how) } :
     /\ pending' = NoPending
     /\ Apply(1, returned)
     /\ UNCHANGED <<config, lifecycle, now, gets, ops>>

\* The notification for the transaction id arrives before the timer.
TransactionNotified ==
  /\ pending.pc = "waiting"
  /\ now < pending.deadline
  /\ \E how \in {"ok", "fail"} : WaitEnds(how)

\* No notification arrived within transactionTimeoutMs.
TransactionTimesOut ==
  /\ pending.pc = "waiting"
  /\ now >= pending.deadline
  /\ WaitEnds("timeout")

-----------------------------------------------------------------------------
(* The web server: its bot variable, POST /api/start, POST /api/stop and   *)
(* the auto-start (arbitrage-detector.ts 555-681)                          *)

NoBot == 0                  \* bot is null

\* new MostInterestingTraderBot(config) (part_001 520-533): an engine with
\* its own fields and its own timers.  th is where its start() call is
\* suspended.
NewEngine ==
  [isRunning |-> FALSE, intervalId |-> NoTimer, arbitrageIntervalId |-> NoTimer,
   timers |-> {}, nextTimerId |-> 1, lastLog |-> LogNone, th |-> NoThread,
   lastReturn |-> NoReturn]

\* stop() of one engine (part_001 579-598).
StopEngine(engine) ==
  IF ~engine.isRunning THEN [engine EXCEPT !.lastLog = LogNotRunning]
  ELSE [engine EXCEPT
          !.isRunning = FALSE,
          !.timers = ClearInterval(ClearInterval(@, engine.intervalId),
                                   engine.arbitrageIntervalId),
          !.intervalId = NoTimer,
          !.arbitrageIntervalId = NoTimer,
          !.lastLog = LogStopped]

\* 'bot = new MostInterestingTraderBot(config); await bot.start()' up to the
\* first await of start().
CreateAndStart(sv, call) ==
  [sv EXCEPT !.engines = Append(@, StartBegin(NewEngine)),
             !.bot = Len(sv.engines) + 1,
             !.calls = Append(@, call)]

ServerUnchanged ==
  UNCHANGED <<config, ops, execVars, engineVars, arbVars, cacheVars, planVars, finder,
              detection, pending>>

\* The callback of app.listen (arbitrage-detector.ts 662-681): it runs once,
\* before any request is served, and does not look at bot.
AutoStart ==
  /\ server.calls = <<>>
  /\ server' = CreateAndStart(server, "auto")
  /\ ServerUnchanged

\* POST /api/start (arbitrage-detector.ts 594-609).
PostStart ==
  /\ server.calls # <<>>
  /\ Len(server.calls) <= MaxCalls
  /\ server' = IF server.bot # NoBot
               THEN [server EXCEPT !.calls = Append(@, "start"),
                                   !.responses = Append(@, LogAlreadyRunning)]
               ELSE CreateAndStart(server, "start")
  /\ ServerUnchanged

\* POST /api/stop (arbitrage-detector.ts 611-626): stop() has no await, so
\* the handler runs to its response without another handler in between.
PostStop ==
  /\ server.calls # <<>>
  /\ Len(server.calls) <= MaxCalls
  /\ server' = IF server.bot = NoBot
               THEN [server EXCEPT !.calls = Append(@, "stop"),
                                   !.responses = Append(@, LogNotRunning)]
               ELSE [server EXCEPT !.engines[server.bot] = StopEngine(@),
                                   !.bot = NoBot,
                                   !.calls = Append(@, "stop"),
                                   !.responses = Append(@, LogStopped)]
  /\ ServerUnchanged

\* The start() call of engine e goes on after the await it was suspended
\* at: after the first trade cycle (part_001 558-573) or after the first
\* scan (568-576).  When start() returns its caller responds.
EngineStarts(e) ==
  /\ e \in 1..Len(server.engines)
  /\ LET engine == server.engines[e]
         after == IF engine.th.pc = "balances" THEN CycleReturn(engine)
                  ELSE ScanReturn(engine)
     IN /\ engine.th.pc \in {"balances", "scanning"}
        /\ server' = [server EXCEPT
                        !.engines[e] = after,
                        !.responses = IF after.th = NoThread
                                      THEN Append(@, LogStarted) ELSE @]
  /\ ServerUnchanged

-----------------------------------------------------------------------------
(* Specifications                                                          *)

InitState(Cfgs) ==
  /\ config \in Cfgs
  /\ tradeHistory = <<>>
  /\ swapLog = <<>>
  /\ socketConnected = FALSE
  /\ threads = [t \in 1..MaxThreads |-> NoThread]
  /\ lastReturn = NoReturn
  /\ isRunning = FALSE
  /\ intervalId = NoTimer
  /\ arbitrageIntervalId = NoTimer
  /\ timers = {}
  /\ nextTimerId = 1
  /\ lastBalanceCheck = EmptySummary
  /\ lastTradeTime = FALSE
  /\ lastArbitrageScanTime = FALSE
  /\ lastLog = LogNone
  /\ lifecycle = <<>>
  /\ detectionHistory = <<>>
  /\ executionHistory = <<>>
  /\ poolCache = << >>
  /\ now = 0
  /\ ops = 0
  /\ gets = [c \in 1..MaxCallers |-> IdleGetter]
  /\ fetchLog = <<>>
  /\ userAssets = Inventory(Undef, Undef, Undef, Undef)
  /\ balanceSummary = EmptySummary
  /\ tradeIntents = <<>>
  /\ planned = FALSE
  /\ finder = [baseToken |-> "", maxHops |-> 0, availablePools |-> <<>>,
               paths |-> <<>>, runs |-> 0, repeat |-> <<>>]
  /\ detection = [scans |-> 0, inputAmount |-> 0, minProfitPercent |-> 0,
                  opportunities |-> <<>>, returned |-> <<>>, quotes |-> <<>>,
                  failed |-> {}]
  /\ pending = NoPending
  /\ server = [bot |-> NoBot, engines |-> <<>>, calls |-> <<>>, responses |-> <<>>]

Init == InitState(Configs)

\* The steps an awaited call takes, whoever made the call.
Steps(Envs, Invs) ==
  \E t \in 1..MaxThreads :
    \/ TradeStep(t, Envs) /\ UNCHANGED pureVars
    \/ DelayStep(t) /\ UNCHANGED pureVars
    \/ BalancesStep(t, Invs) /\ UNCHANGED pureVars
    \/ RefetchStep(t, Invs) /\ UNCHANGED pureVars
    \/ ScanStep(t) /\ UNCHANGED pureVars
    \/ ArbTradeStep(t, Envs) /\ UNCHANGED pureVars

\* What the transport answers to the trades of a routed trade.
RoutedEnvs ==
  { TradeEnv(<<Undef, Undef, Undef>>, "fail", 0, "ok", "ok", "ok"),
    TradeEnv(<<5, Undef, 0>>, "ok", 100 * Unit, "ok", "ok", "ok"),
    TradeEnv(<<5, Undef, 0>>, "ok", 0, "ok", "ok", "ok") }

\* One caller that awaits each call before the next.
Next ==
  \/ Quiet /\ CallDirect(TradeEnvs) /\ UNCHANGED pureVars
  \/ Quiet /\ CallRouted(1) /\ UNCHANGED pureVars
  \/ Quiet /\ CallBatch(1) /\ UNCHANGED pureVars
  \/ Quiet /\ RebalanceTick(1) /\ UNCHANGED pureVars
  \/ Quiet /\ ArbitrageTick(1) /\ UNCHANGED pureVars
  \/ Steps(RoutedEnvs, Inventories)

Spec == Init /\ [][Next]_vars

EngineInventories == { Inventory(40 * Unit, 0, 50 * Unit, Undef) }

EngineEnvs == { TradeEnv(<<5, Undef, 0>>, "ok", 100 * Unit, "ok", "ok", "ok") }

\* The engine under start(), stop() and its timers.
NextEngine ==
  \/ \E t \in 1..MaxThreads : StartCall(t) /\ UNCHANGED pureVars
  \/ StopCall /\ UNCHANGED pureVars
  \/ \E t \in 1..MaxThreads : TimerFire(t) /\ UNCHANGED pureVars
  \/ \E t \in 1..MaxThreads :
       \/ TradeStep(t, EngineEnvs) /\ UNCHANGED pureVars
       \/ DelayStep(t) /\ UNCHANGED pureVars
       \/ BalancesStep(t, EngineInventories) /\ UNCHANGED pureVars
       \/ RefetchStep(t, EngineInventories) /\ UNCHANGED pureVars
       \/ ScanStep(t) /\ UNCHANGED pureVars

\* The engine trades for real without arbitrage, or scans in dry-run.
InitEngine ==
  /\ Init
  /\ config \in { Config(TRUE, FALSE, SILK), Config(FALSE, TRUE, SILK),
                  Config(FALSE, FALSE, SILK) }

SpecEngine == InitEngine /\ [][NextEngine]_vars

\* The pool cache under concurrent callers.
NextCache ==
  \/ \E c \in 1..MaxCallers :
       \/ GetCall(c) /\ UNCHANGED pureVars
       \/ FetchDone(c) /\ UNCHANGED pureVars
       \/ FetchFail(c) /\ UNCHANGED pureVars
  \/ ClearExpired /\ UNCHANGED pureVars
  \/ Tick /\ UNCHANGED pureVars

InitCache == Init /\ config = Config(TRUE, TRUE, GALA)

SpecCache == InitCache /\ [][NextCache]_vars

\* The path finder by itself.
NextPaths ==
  \/ FindPaths
  \/ FindAgain

SpecPaths == InitCache /\ [][NextPaths]_vars

\* One search and the profitability scan over its paths.
NextProfit ==
  \/ FindPaths
  \/ FindArbitrageOpportunities

SpecProfit == InitCache /\ [][NextProfit]_vars

\* Arbitrage ticks, one at a time, while time passes (part_001 660-712).
NextScan ==
  \/ Quiet /\ ArbitrageTick(1) /\ UNCHANGED pureVars
  \/ ScanStep(1) /\ UNCHANGED pureVars
  \/ ArbTradeStep(1, RoutedEnvs) /\ UNCHANGED pureVars
  \/ Tick /\ UNCHANGED pureVars

InitScan == InitState({ Config(trading, TRUE, GALA) : trading \in BOOLEAN })

SpecScan == InitScan /\ [][NextScan]_vars

\* Scans of the detector, one at a time, while time passes.
NextDetect ==
  \/ ScanForOpportunities
  \/ Tick /\ UNCHANGED pureVars

InitDetect == InitState({ Config(FALSE, TRUE, preferred) : preferred \in {GALA, SILK} })

SpecDetect == InitDetect /\ [][NextDetect]_vars

\* The web server's handlers and the start() calls they made.
NextServer ==
  \/ AutoStart
  \/ PostStart
  \/ PostStop
  \/ \E e \in 1..(MaxCalls + 1) : EngineStarts(e)

InitServer == InitState({ Config(FALSE, arbitrage, GALA) : arbitrage \in BOOLEAN })

SpecServer == InitServer /\ [][NextServer]_vars

\* executeTrade calls, one at a time, each waiting for its transaction
\* while time passes.  The clock runs on, and the timer of a waiting
\* transaction fires when its time has come.
NextWait ==
  \/ SubmitTrade /\ UNCHANGED <<planVars, finder, detection, server>>
  \/ TransactionNotified /\ UNCHANGED <<planVars, finder, detection, server>>
  \/ TransactionTimesOut /\ UNCHANGED <<planVars, finder, detection, server>>
  \/ Tick /\ UNCHANGED pureVars

InitWait == InitState({ Config(trading, FALSE, GALA) : trading \in BOOLEAN })

SpecWait ==
  /\ InitWait
  /\ [][NextWait]_vars
  /\ WF_vars(Tick /\ UNCHANGED pureVars)
  /\ WF_vars(TransactionTimesOut /\ UNCHANGED <<planVars, finder, detection, server>>)

\* The balance planner by itself, under the default minimum and under a
\* minimum of 0.00001, trading the default percentage or all of a balance.
NextBalance ==
  \/ GetBalances
  \/ GetTokensToTrade

InitBalance ==
  InitState({ [Config(FALSE, FALSE, preferred) EXCEPT
                 !.minimumGalaBalance = minimum,
                 !.tradeAmountPercentage = percentage] :
                preferred \in {GALA, SILK},
                minimum \in {DefaultMinimumGalaBalance * Unit, 10},
                percentage \in {DefaultTradeAmountPercentage, 100} })

SpecBalance == InitBalance /\ [][NextBalance]_vars

-----------------------------------------------------------------------------
(* Properties of the executor (Spec)                                       *)

IsPrefix(a, b) == Len(a) <= Len(b) /\ a = SubSeq(b, 1, Len(a))

Count(seq, x) == Cardinality({ k \in 1..Len(seq) : seq[k] = x })

IsPermutation(a, b) ==
  /\ Len(a) = Len(b)
  /\ \A k \in 1..Len(a) : Count(a, a[k]) = Count(b, a[k])

IsGasTrade(trade) == trade.targetToken = config.galaTokenKey

GasFirst(trades) ==
  \A i, j \in 1..Len(trades) :
    i < j => ~(~IsGasTrade(trades[i]) /\ IsGasTrade(trades[j]))

\* given was sorted into trades, of which executed is the part begun so far.
SortedAndInOrder(given, trades, executed) ==
  /\ IsPermutation(given, trades)
  /\ GasFirst(trades)
  /\ IsPrefix(executed, trades)

\* C1: whatever list of intents executeTradesForPreferredToken is given, the
\* list it works on is that list reordered so that every intent to the gas
\* token comes before every other intent, and the intents are handed to
\* executeMultiHopTrade one by one in that order; a batch that returns
\* normally with trading enabled has executed all of them.
C1_GasIntentsFirst ==
  /\ \A t \in 1..MaxThreads :
       SortedAndInOrder(threads[t].given, threads[t].trades, threads[t].executed)
  /\ SortedAndInOrder(lastReturn.given, lastReturn.trades, lastReturn.executed)
  /\ (lastReturn.fn = "batch" /\ ~lastReturn.threw /\ config.enableTrading)
       => lastReturn.executed = lastReturn.trades

\* A batch given a non-gas intent before a gas intent has executed both.
C1_Witness ==
  /\ lastReturn.fn = "batch"
  /\ Len(lastReturn.given) = 2
  /\ ~IsGasTrade(lastReturn.given[1])
  /\ IsGasTrade(lastReturn.given[2])
  /\ lastReturn.executed = <<lastReturn.given[2], lastReturn.given[1]>>

\* C2: with enableTrading false no swap is ever submitted, whatever calls
\* and ticks are made.
C2_DryRunSubmitsNothing ==
  ~config.enableTrading => swapLog = <<>>

\* Dry run: a direct trade was recorded and a later arbitrage tick found an
\* opportunity.
C2_Witness ==
  /\ ~config.enableTrading
  /\ tradeHistory # <<>>
  /\ detectionHistory # <<>>
  /\ lastReturn.fn = "scan"

IsSyntheticSuccess(result, trade) ==
  /\ result.success
  /\ result.fromToken = trade.token.tokenKey
  /\ result.toToken = trade.targetToken
  /\ result.amountIn = trade.amount
  /\ result.amountOut = MockAmountOut(trade.amount)
  /\ result.transactionId = <<"mock-tx">>

\* C3: with enableTrading false, executeTradesForPreferredToken given n
\* intents returns n results, each a synthetic success for its intent, and
\* these n results are the last n entries of the trade history when the
\* call returns.
C3_DryRunBatchRecordsEveryIntent ==
  (lastReturn.fn = "batch" /\ Quiet /\ ~config.enableTrading) =>
    LET n == Len(lastReturn.trades) IN
    /\ Len(lastReturn.results) = n
    /\ Len(tradeHistory) >= n
    /\ \A k \in 1..n :
         /\ IsSyntheticSuccess(lastReturn.results[k], lastReturn.trades[k])
         /\ tradeHistory[Len(tradeHistory) - n + k] = lastReturn.results[k]

\* C4: a batch run with trading enabled returns (it does not throw) one
\* result per intent, having executed every intent, whether or not some
\* intent failed.
C4_FailedIntentDoesNotAbortBatch ==
  (lastReturn.fn = "batch" /\ config.enableTrading) =>
    /\ ~lastReturn.threw
    /\ lastReturn.executed = lastReturn.trades
    /\ Len(lastReturn.results) = Len(lastReturn.trades)

NoLivePool(env) == \A k \in 1..Len(env.probe) : env.probe[k] = Undef \/ env.probe[k] <= 0

\* The transport failed the executeTrade call at some step.
TransportFailed(env, connectedAfter) ==
  \/ NoLivePool(env)
  \/ env.quote # "ok"
  \/ env.connect = "fail" /\ ~connectedAfter
  \/ env.submit = "fail"
  \/ env.wait = "fail"

\* C5: executeTrade called by itself never throws: it returns one result,
\* which is the newest entry of the trade history; when the pool probing,
\* the quote, the socket connection, the submission or the wait for the
\* transaction failed, the result has success false and an error.  (The
\* property reads the state the call returns to: no other call has begun.)
C5_ExecuteTradeNeverThrows ==
  (lastReturn.fn = "direct" /\ Quiet) =>
    /\ ~lastReturn.threw
    /\ Len(lastReturn.results) = 1
    /\ tradeHistory # <<>>
    /\ tradeHistory[Len(tradeHistory)] = lastReturn.results[1]
    /\ ~lastReturn.results[1].success => lastReturn.results[1].error # NoErr
    /\ (config.enableTrading /\ TransportFailed(lastReturn.env, socketConnected))
         => ~lastReturn.results[1].success /\ lastReturn.results[1].error # NoErr

\* The submission of a direct trade was rejected.
C5_Witness ==
  /\ lastReturn.fn = "direct"
  /\ config.enableTrading
  /\ lastReturn.env.submit = "fail"
  /\ swapLog # <<>>
  /\ ~lastReturn.threw
  /\ ~lastReturn.results[1].success

-----------------------------------------------------------------------------
(* Properties of the engine's lifecycle (SpecEngine)                       *)

TicksInFlight(entry) == { t \in 1..MaxThreads : threads[t].entry = entry }

\* C6: at no time are two ticks of the same loop in flight: a timer that
\* comes due while the previous tick of its loop is executing starts no
\* tick.
C6_TicksOfALoopDoNotOverlap ==
  /\ Cardinality(TicksInFlight("cycle")) <= 1
  /\ Cardinality(TicksInFlight("scan")) <= 1

StopWasLast == lifecycle # <<>> /\ lifecycle[Len(lifecycle)] = "stop"

\* C7: when the last lifecycle call made is stop(), the runtime holds no
\* timer of the engine (so no further tick can start), however that stop()
\* interleaved with start().
C7_StopCancelsBothLoops ==
  StopWasLast => timers = {}

EngineState ==
  <<isRunning, intervalId, arbitrageIntervalId, timers, nextTimerId, threads,
    lastBalanceCheck, lastTradeTime, lastArbitrageScanTime, lastReturn,
    tradeHistory, swapLog, socketConnected, detectionHistory, executionHistory,
    poolCache, fetchLog>>

TimersOf(kind) == { tm \in timers : tm.kind = kind }

OnlyStarts == lifecycle # <<>> /\ \A k \in 1..Len(lifecycle) : lifecycle[k] = "start"

StartInFlight == \E t \in 1..MaxThreads : threads[t].entry = "start"

\* After start() calls only, once start() has returned: one running engine
\* with one timer per enabled loop, which the engine's fields name.
OneEngineRunning ==
  (OnlyStarts /\ ~StartInFlight) =>
    /\ isRunning
    /\ Cardinality(TimersOf("cycle")) = 1
    /\ Cardinality(TimersOf("scan")) = (IF config.enableArbitrage THEN 1 ELSE 0)
    /\ \A tm \in timers :
         tm.id = (IF tm.kind = "cycle" THEN intervalId ELSE arbitrageIntervalId)

\* After stop() followed by stop() the engine is stopped.
StoppedAfterTwoStops ==
  (Len(lifecycle) >= 2 /\ lifecycle[Len(lifecycle)] = "stop"
     /\ lifecycle[Len(lifecycle) - 1] = "stop") => ~isRunning

\* start() on a running engine and stop() on a stopped one only log.
SecondCallIsNoOp ==
  /\ (lifecycle' = Append(lifecycle, "start") /\ isRunning)
       => (UNCHANGED EngineState /\ lastLog' = LogAlreadyRunning)
  /\ (lifecycle' = Append(lifecycle, "stop") /\ ~isRunning)
       => (UNCHANGED EngineState /\ lastLog' = LogNotRunning)

\* C8: the lifecycle is idempotent: start() calls, however many, leave one
\* running engine with one timer per enabled loop; stop() after stop()
\* leaves the engine stopped; and start() on a running engine, like stop()
\* on a stopped one, changes nothing of the engine but the line it logs.
C8_LifecycleIdempotent ==
  /\ [](OneEngineRunning /\ StoppedAfterTwoStops)
  /\ [][SecondCallIsNoOp]_vars

\* start() twice with arbitrage enabled: the second call found the engine
\* running, with its two timers set.
C8_Witness ==
  /\ lifecycle = <<"start", "start">>
  /\ lastLog = LogAlreadyRunning
  /\ config.enableArbitrage
  /\ Cardinality(timers) = 2

-----------------------------------------------------------------------------
(* Properties of the pool cache (SpecCache)                                *)

Fetching(key) == { c \in 1..MaxCallers : gets[c].pc = "fetching" /\ gets[c].key = key }

\* C9: for every key at most one transport fetch is outstanding at any time.
C9_SingleFlightPerKey ==
  \A c \in 1..MaxCallers :
    gets[c].pc = "fetching" => Cardinality(Fetching(gets[c].key)) = 1

\* The canonical key (min(t0, t1), max(t0, t1), fee).
CanonicalKey(token0, token1, fee) ==
  LET lo == IF IndexOf(TokenOrder, token0) <= IndexOf(TokenOrder, token1)
            THEN token0 ELSE token1
      hi == IF lo = token0 THEN token1 ELSE token0
  IN lo \o "|" \o hi \o "|" \o ToString(fee)

\* Caller c makes a get in this step.
GetStarts(c) == gets[c].pc = "idle" /\ gets'[c] # gets[c]

\* A get made while the canonical key's entry is live returns the entry's
\* snapshot at once and issues no fetch.
LiveEntryServesGet ==
  \A c \in 1..MaxCallers :
    GetStarts(c) =>
      LET key == CanonicalKey(gets'[c].token0, gets'[c].token1, gets'[c].fee) IN
      (key \in DOMAIN poolCache /\ now < poolCache[key].expiresAt) =>
        /\ gets'[c].pc = "idle"
        /\ gets'[c].outcome = "cached"
        /\ gets'[c].result = poolCache[key].data
        /\ fetchLog' = fetchLog

\* C10: once a get has populated a key's entry, every get for that key
\* before the entry expires, in either order of the two tokens, returns the
\* cached snapshot and causes no fetch.
C10_LiveEntryIsReused ==
  [][LiveEntryServesGet]_vars

\* A get for (SILK, GALA) was served from the entry a get for (GALA, SILK)
\* had populated.
C10_Witness ==
  \E c \in 1..MaxCallers :
    /\ gets[c].outcome = "cached"
    /\ gets[c].token0 = SILK
    /\ gets[c].result.token0 = GALA
    /\ Len(fetchLog) = 1

-----------------------------------------------------------------------------
(* Properties of the path finder (SpecPaths)                               *)

PathsWithHops(n) == { k \in 1..Len(finder.paths) : finder.paths[k].hops = n }

\* C11: every path findCircularPaths returns starts and ends at the base
\* token, visits pairwise distinct tokens before it returns, has n pools and
\* n + 1 tokens with n in 2..maxHops, and the pool of each hop holds both
\* tokens of the hop.
C11_PathsAreSimpleCycles ==
  \A k \in 1..Len(finder.paths) :
    LET path == finder.paths[k]
        n == Len(path.pools)
    IN /\ Len(path.tokens) = n + 1
       /\ path.hops = n
       /\ n \in 2..finder.maxHops
       /\ path.tokens[1] = finder.baseToken
       /\ path.tokens[n + 1] = finder.baseToken
       /\ \A i, j \in 1..n : i # j => path.tokens[i] # path.tokens[j]
       /\ \A i \in 1..n :
            {path.tokens[i], path.tokens[i + 1]} =
              {path.pools[i].token0, path.pools[i].token1}

\* A search that returned a cycle of four hops in both directions.
C11_Witness ==
  /\ finder.maxHops = 4
  /\ Cardinality(PathsWithHops(4)) = 2

\* The search of the example: base GALA (A), SILK (B), GUSDC (C), at most
\* three hops, over the pools (A,B,500), (A,B,3000), (B,C,3000), (C,A,10000)
\* in any order, all above the threshold.
ExampleSearch ==
  /\ finder.runs >= 1
  /\ finder.baseToken = GALA
  /\ finder.maxHops = 3
  /\ Len(finder.availablePools) = 4
  /\ { [token0 |-> finder.availablePools[k].token0,
        token1 |-> finder.availablePools[k].token1,
        fee |-> finder.availablePools[k].fee] : k \in 1..4 } =
       { [token0 |-> GALA, token1 |-> SILK, fee |-> 500],
         [token0 |-> GALA, token1 |-> SILK, fee |-> 3000],
         [token0 |-> SILK, token1 |-> GUSDC, fee |-> 3000],
         [token0 |-> GUSDC, token1 |-> GALA, fee |-> 10000] }

\* C12 as stated: the example search returns one 2-cycle A->B->A and three
\* 3-cycles, four paths in total.
C12_FourCyclesInTheExample ==
  ExampleSearch =>
    /\ Cardinality(PathsWithHops(2)) = 1
    /\ Cardinality(PathsWithHops(3)) = 3
    /\ Len(finder.paths) = 4

\* C12 amended: the example search returns two 2-cycles A->B->A (one per
\* order of the two AB pools) and then four 3-cycles (A->B->C->A through
\* either AB pool, A->C->B->A back through either AB pool), six paths.
C12_SixCyclesInTheExample ==
  ExampleSearch =>
    /\ Len(finder.paths) = 6
    /\ PathsWithHops(2) = {1, 2}
    /\ PathsWithHops(3) = {3, 4, 5, 6}
    /\ \A k \in {1, 2} :
         /\ finder.paths[k].tokens = <<GALA, SILK, GALA>>
         /\ finder.paths[k].fees \in { <<500, 3000>>, <<3000, 500>> }
    /\ finder.paths[1].fees # finder.paths[2].fees
    /\ { <<finder.paths[k].tokens, finder.paths[k].fees>> : k \in {3, 4, 5, 6} } =
         { << <<GALA, SILK, GUSDC, GALA>>, <<500, 3000, 10000>> >>,
           << <<GALA, SILK, GUSDC, GALA>>, <<3000, 3000, 10000>> >>,
           << <<GALA, GUSDC, SILK, GALA>>, <<10000, 3000, 500>> >>,
           << <<GALA, GUSDC, SILK, GALA>>, <<10000, 3000, 3000>> >> }

C12_Witness ==
  /\ ExampleSearch
  /\ finder.availablePools[1].fee = 500
  /\ finder.availablePools[4].fee = 10000
  /\ Len(finder.paths) = 6

-----------------------------------------------------------------------------
(* Properties of the balance planner (SpecBalance)                         *)

Fetched == userAssets.tokens # <<>>

KeysOf(tokens) == [k \in 1..Len(tokens) |-> constructTokenKey(tokens[k])]

\* C14: getBalances puts into otherTokens exactly the assets whose key is
\* neither the preferred key nor the gas key, in inventory order and each
\* under a key of its own, and the preferred slot, the gas slot and
\* otherTokens together account for every fetched asset exactly once.
C14_BalancesPartitionTheInventory ==
  Fetched =>
    LET tokens == userAssets.tokens
        keys == KeysOf(tokens)
        special == {config.preferredTokenKey, config.galaTokenKey}
        IsOther(token) == constructTokenKey(token) \notin special
        others == SelectSeq(tokens, IsOther)
        kept == balanceSummary.otherTokens
        Held(key) == { k \in 1..Len(tokens) : keys[k] = key }
    IN /\ Len(kept) = Len(others)
       /\ \A k \in 1..Len(kept) :
            /\ kept[k].tokenKey = constructTokenKey(others[k])
            /\ kept[k].quantity = others[k].quantity
       /\ \A i, j \in 1..Len(kept) : i # j => kept[i].tokenKey # kept[j].tokenKey
       /\ \A key \in special : Cardinality(Held(key)) <= 1
       /\ \A k \in Held(config.preferredTokenKey) :
            balanceSummary.preferredTokenBalance = tokens[k].quantity
       /\ \A k \in Held(config.galaTokenKey) :
            balanceSummary.galaTokenBalance = tokens[k].quantity

GasIntents ==
  { k \in 1..Len(tradeIntents) : tradeIntents[k].token.tokenKey = config.galaTokenKey }

\* C15: when the preferred token is the gas token, getTokensToTrade returns
\* no intent that spends the gas token.
C15_NoGasSpendWhenPreferredIsGas ==
  (planned /\ config.preferredTokenKey = config.galaTokenKey) => GasIntents = {}

\* Preferred is gas, the gas balance is above twice the minimum, and other
\* tokens are traded.
C15_Witness ==
  /\ planned
  /\ config.preferredTokenKey = config.galaTokenKey
  /\ balanceSummary.galaTokenBalance > 2 * config.minimumGalaBalance
  /\ balanceSummary.galaTokenBalance = 250 * Unit
  /\ Len(tradeIntents) >= 1

\* C16: getTokensToTrade returns an intent gas -> preferred exactly when
\* gasBalance > 2 x minGasBalance and preferred # gas; then there is one, it
\* is the last of the list, and its amount is
\* (gasBalance - minGasBalance) x percentage / 100 x 0.5, rounded up to the
\* fixed-point unit.
C16_ExcessGasIntent ==
  planned =>
    LET excess == balanceSummary.galaTokenBalance - config.minimumGalaBalance
        perUnit == 200 \div config.tradeAmountPercentage
        last == tradeIntents[Len(tradeIntents)]
    IN /\ GasIntents # {} <=>
            /\ balanceSummary.galaTokenBalance > 2 * config.minimumGalaBalance
            /\ config.preferredTokenKey # config.galaTokenKey
       /\ GasIntents # {} =>
            /\ GasIntents = {Len(tradeIntents)}
            /\ last.targetToken = config.preferredTokenKey
            /\ (last.amount - 1) * perUnit < excess
            /\ excess <= last.amount * perUnit

\* An excess-gas intent after two intents for other tokens.
C16_Witness ==
  /\ planned
  /\ Len(tradeIntents) = 3
  /\ GasIntents = {3}
  /\ balanceSummary.galaTokenBalance = 250 * Unit
  /\ tradeIntents[3].amount = (15 * Unit) \div 2

\* The intents as (source key, target key, amount).
Planned ==
  [k \in 1..Len(tradeIntents) |->
     <<tradeIntents[k].token.tokenKey, tradeIntents[k].targetToken,
       tradeIntents[k].amount>>]

\* The fetched assets as (key, quantity), in inventory order.
Holdings ==
  [k \in 1..Len(userAssets.tokens) |->
     <<constructTokenKey(userAssets.tokens[k]), userAssets.tokens[k].quantity>>]

DefaultPlan(preferred) ==
  /\ planned
  /\ config.preferredTokenKey = preferred
  /\ config.galaTokenKey = GALA
  /\ config.minimumGalaBalance = 100 * Unit
  /\ config.tradeAmountPercentage = 10

\* preferred SILK, gas GALA, minimum 100, 10 percent, {GALA:150, SILK:0, GUSDC:50}
ExampleExcess ==
  /\ DefaultPlan(SILK)
  /\ Holdings = << <<GALA, 150 * Unit>>, <<SILK, 0>>, <<GUSDC, 50 * Unit>> >>

\* C17 as stated: the example returns (GUSDC->SILK, 5) then (GALA->SILK, 2.5).
C17_ExampleSpendsExcessGas ==
  ExampleExcess =>
    Planned = << <<GUSDC, SILK, 5 * Unit>>, <<GALA, SILK, (5 * Unit) \div 2>> >>

\* C17 amended: the example returns the single intent (GUSDC->SILK, 5); 150
\* is not above twice the minimum of 100, so no gas is spent, and no gas is
\* refilled.
C17_ExampleKeepsGas ==
  ExampleExcess => Planned = << <<GUSDC, SILK, 5 * Unit>> >>

C17_Witness ==
  /\ ExampleExcess
  /\ Len(tradeIntents) = 1
  /\ balanceSummary.galaTokenBalance = 150 * Unit

\* The intents of the first two priorities over the other tokens in others:
\* one to the gas token for each, then one to the preferred token for each,
\* each of balance x percentage / 100 (rounded up to the fixed-point unit).
RefillThenPreferred(others) ==
  LET n == Len(others)
      Share(token) == MulDivUp(token.quantity, config.tradeAmountPercentage, 100)
  IN [k \in 1..(2 * n) |->
        IF k <= n THEN <<others[k].tokenKey, config.galaTokenKey, Share(others[k])>>
        ELSE <<others[k - n].tokenKey, config.preferredTokenKey, Share(others[k - n])>>]

\* {GALA:40, SILK:0, GUSDC:50, GWBTC:0.0001} under the configuration of C17
ExampleRefill ==
  /\ DefaultPlan(SILK)
  /\ Holdings = << <<GALA, 40 * Unit>>, <<SILK, 0>>, <<GUSDC, 50 * Unit>>,
                   <<GWBTC, 100>> >>

RefillPlanOfTheExample ==
  ExampleRefill =>
    Planned = << <<GUSDC, GALA, 5 * Unit>>, <<GWBTC, GALA, 10>>,
                 <<GUSDC, SILK, 5 * Unit>>, <<GWBTC, SILK, 10>> >>

\* C18 as stated: below the minimum the plan is one refill intent per other
\* token and then one intent to the preferred token per other token.
C18_RefillForEveryOtherToken ==
  (planned /\ balanceSummary.galaTokenBalance < config.minimumGalaBalance) =>
    /\ Planned = RefillThenPreferred(balanceSummary.otherTokens)
    /\ RefillPlanOfTheExample

\* C18 amended: below the minimum the plan is one refill intent per other
\* token whose balance x percentage / 100 is above 0.000001, then one
\* intent to the preferred token for each of the same tokens, both groups in
\* inventory order; the example gives its four intents.
C18_RefillForEveryTradableToken ==
  (planned /\ balanceSummary.galaTokenBalance < config.minimumGalaBalance) =>
    LET AboveDust(token) ==
          MulDivUp(token.quantity, config.tradeAmountPercentage, 100) > DustThreshold
    IN /\ Planned = RefillThenPreferred(SelectSeq(balanceSummary.otherTokens, AboveDust))
       /\ RefillPlanOfTheExample

C18_Witness ==
  /\ ExampleRefill
  /\ Len(tradeIntents) = 4

\* C20: every intent getTokensToTrade returns, from an other token or from
\* the gas token, has an amount above the dust threshold of 0.000001.
C20_NoDustIntent ==
  planned => \A k \in 1..Len(tradeIntents) : tradeIntents[k].amount > DustThreshold

-----------------------------------------------------------------------------
(* Properties of the rebalance tick (Spec)                                 *)

\* A rebalance tick takes the step that follows its balance fetch.
TickPlans(t) ==
  /\ threads[t].entry = "cycle"
  /\ threads[t].pc = "balances"
  /\ threads'[t] # threads[t]

\* The tick is over: it returned to its caller, nothing was submitted and
\* nothing was recorded.
TickReturnsAtOnce(t) ==
  /\ threads'[t] = NoThread
  /\ lastReturn'.fn = "cycle"
  /\ ~lastReturn'.threw
  /\ lastReturn'.given = <<>>
  /\ swapLog' = swapLog
  /\ tradeHistory' = tradeHistory
  /\ socketConnected' = socketConnected

NothingToTrade(balance) ==
  /\ balance.otherTokens = <<>>
  /\ balance.galaTokenBalance >= config.minimumGalaBalance

\* C19 as stated: with no other tokens and gasBalance >= minGasBalance,
\* getTokensToTrade returns no intents and the tick returns after its
\* balance fetch.
C19_QuietTick ==
  [][\A t \in 1..MaxThreads :
       (TickPlans(t) /\ NothingToTrade(lastBalanceCheck')) =>
         /\ getTokensToTrade(config, lastBalanceCheck') = <<>>
         /\ TickReturnsAtOnce(t)]_vars

\* C19 amended: with no other tokens and
\* minGasBalance <= gasBalance <= 2 x minGasBalance, or gasBalance >=
\* minGasBalance and the preferred token being the gas token,
\* getTokensToTrade returns no intents and the tick returns after its
\* balance fetch without another transport call.
C19_QuietTickWithoutExcessGas ==
  [][\A t \in 1..MaxThreads :
       ( /\ TickPlans(t)
         /\ NothingToTrade(lastBalanceCheck')
         /\ \/ lastBalanceCheck'.galaTokenBalance <= 2 * config.minimumGalaBalance
            \/ config.preferredTokenKey = config.galaTokenKey ) =>
         /\ getTokensToTrade(config, lastBalanceCheck') = <<>>
         /\ TickReturnsAtOnce(t)]_vars

\* A tick returned on {GALA:150, SILK:0} with preferred SILK.
C19_Witness ==
  /\ Quiet
  /\ lastReturn.fn = "cycle"
  /\ config.preferredTokenKey = SILK
  /\ lastBalanceCheck.totalTokens = 2
  /\ lastBalanceCheck.otherTokens = <<>>
  /\ lastBalanceCheck.galaTokenBalance = 150 * Unit
  /\ ops = 1

-----------------------------------------------------------------------------
(* Properties of the planner and the executor, continued                   *)

\* C21: for a trade percentage in (0, 100], every intent of getTokensToTrade
\* whose source is the gas token has an amount of at most
\* gasBalance - minGasBalance.
C21_GasIntentWithinExcess ==
  (planned /\ config.tradeAmountPercentage \in 1..100) =>
    \A k \in GasIntents :
      tradeIntents[k].amount
        <= balanceSummary.galaTokenBalance - config.minimumGalaBalance

\* All of a balance is traded, and the gas intent takes half the excess.
C21_Witness ==
  /\ planned
  /\ config.tradeAmountPercentage = 100
  /\ balanceSummary.galaTokenBalance = 250 * Unit
  /\ config.minimumGalaBalance = DefaultMinimumGalaBalance * Unit
  /\ GasIntents # {}
  /\ \A k \in GasIntents : tradeIntents[k].amount = 75 * Unit

\* A step in which executeTrade is called by itself and returns.
DirectCall == ops' # ops /\ lastReturn'.fn = "direct" /\ lastReturn' # lastReturn

\* The swaps the step submits.
NewSwaps == { swapLog'[k] : k \in (Len(swapLog) + 1)..Len(swapLog') }

\* C22: every swap executeTrade submits carries exactIn = amount and
\* amountOutMinimum = expected x (1 - maxSlippage/100), expected being the
\* absolute value of the quoted output; an expected output of 100 under a
\* slippage of 5 gives a minimum of 95.
C22_SubmissionTerms ==
  [][DirectCall =>
       LET expected == Abs(lastReturn'.env.quoteOut) IN
       \A swap \in NewSwaps :
         /\ swap.exactIn = lastReturn'.results[1].amountIn
         /\ swap.amountOutMinimum = MulDiv(expected, 100 - config.maxSlippage, 100)
         /\ (expected = 100 * Unit /\ config.maxSlippage = 5)
              => swap.amountOutMinimum = 95 * Unit]_vars

\* A swap was submitted on a quote of -40: its minimum output is 38.
C22_Witness ==
  /\ lastReturn.fn = "direct"
  /\ lastReturn.env.quoteOut = 0 - 40 * Unit
  /\ swapLog # <<>>
  /\ swapLog[Len(swapLog)].exactIn = 5 * Unit
  /\ swapLog[Len(swapLog)].amountOutMinimum = 38 * Unit

\* The fee tiers whose probe reports a positive liquidity.
LiquidTiers(probe) == { k \in 1..Len(FeeTiers) : probe[k] # Undef /\ probe[k] > 0 }

\* C23: executeTrade called without a fee tier submits on the tier of a pool
\* of maximal liquidity among the tiers 500, 3000, 10000 whose probe
\* reports a positive liquidity; when there is none it fails for want of a
\* pool, before the quote, and submits nothing.
C23_TierOfTheMostLiquidPool ==
  [][(DirectCall /\ config.enableTrading) =>
       LET probe == lastReturn'.env.probe
           kept == LiquidTiers(probe)
           result == lastReturn'.results[1]
       IN /\ FeeTiers = <<500, 3000, 10000>>
          /\ kept = {} =>
               /\ NewSwaps = {}
               /\ ~result.success
               /\ result.error = "No liquid pools found"
          /\ \A swap \in NewSwaps :
               \E k \in kept :
                 /\ swap.fee = FeeTiers[k]
                 /\ \A j \in kept : probe[j] <= probe[k]]_vars

\* Only the 10000 tier has liquidity, and the swap was submitted there.
C23_Witness ==
  /\ lastReturn.fn = "direct"
  /\ lastReturn.env.probe = <<0, 0, 4>>
  /\ swapLog # <<>>
  /\ swapLog[Len(swapLog)].fee = 10000
  /\ lastReturn.results[1].success

\* No tier has liquidity: the call failed with nothing submitted.
C23_WitnessNoPool ==
  /\ lastReturn.fn = "direct"
  /\ config.enableTrading
  /\ LiquidTiers(lastReturn.env.probe) = {}
  /\ swapLog = <<>>
  /\ lastReturn.results[1].error = "No liquid pools found"

\* The trade history of one executeMultiHopTrade call, the only call made so
\* far, read against the registry: the direct trade first; after its failure
\* the two-hop paths in registry order, hop 2 fed with hop 1's output; the
\* call returns the first path both of whose hops Succeeded, and throws when
\* no path is left.  Hop 2 is made when hop 1 has an output to feed it.
RoutedRun(Succeeded(_)) ==
  LET H == tradeHistory
      from == H[1].fromToken
      to == H[1].toToken
      amount == H[1].amountIn
      IsTwoHop(path) == Len(path) = 3
      paths == SelectSeq(findTradingPaths(from, to, 2), IsTwoHop)
      Trade(k, a, b, x) ==
        /\ k <= Len(H)
        /\ H[k].fromToken = a /\ H[k].toToken = b /\ H[k].amountIn = x
      RECURSIVE Walk(_, _)
      Walk(k, j) ==
        IF j > Len(paths) THEN k = Len(H) + 1 /\ lastReturn.threw
        ELSE /\ Trade(k, from, paths[j][2], amount)
             /\ IF ~H[k].success \/ Falsy(H[k].amountOut) THEN Walk(k + 1, j + 1)
                ELSE /\ Trade(k + 1, paths[j][2], to, H[k].amountOut)
                     /\ IF ~Succeeded(H[k + 1]) THEN Walk(k + 2, j + 1)
                        ELSE /\ k + 1 = Len(H)
                             /\ ~lastReturn.threw
                             /\ Len(lastReturn.results) = 1
                             /\ lastReturn.results[1].success
                             /\ lastReturn.results[1].fromToken = from
                             /\ lastReturn.results[1].toToken = to
                             /\ lastReturn.results[1].amountIn = amount
                             /\ lastReturn.results[1].amountOut = H[k + 1].amountOut
  IN /\ H # <<>>
     /\ <<from, to>> \in TradePairs
     /\ amount \in TradeAmounts
     /\ H[1].success => ~lastReturn.threw /\ lastReturn.results = H
     /\ ~H[1].success => Walk(2, 1)

RoutedReturned == lastReturn.fn = "routed" /\ Quiet /\ ops = 1

\* C24: executeMultiHopTrade first attempts the direct trade; only when that
\* fails does it try the registry's two-hop paths in order; when both hops
\* of a path succeed it returns success, hop 2 having had hop 1's amountOut
\* as its input, with hop 2's amountOut as the amountOut.
C24_RoutedTrade ==
  RoutedReturned => RoutedRun(LAMBDA result : result.success)

\* The same with hop 2 counted as succeeded when its result is a success
\* with an amountOut other than 0.
C24_RoutedTradeWithOutput ==
  RoutedReturned =>
    RoutedRun(LAMBDA result : result.success /\ ~Falsy(result.amountOut))

\* The second two-hop path completed after the first one failed at hop 2.
C24_Witness ==
  /\ RoutedReturned
  /\ config.enableTrading
  /\ Len(tradeHistory) = 5
  /\ ~tradeHistory[1].success
  /\ tradeHistory[2].success /\ ~tradeHistory[3].success
  /\ tradeHistory[4].success /\ tradeHistory[5].success
  /\ tradeHistory[4].toToken = GUSDT
  /\ ~lastReturn.threw
  /\ lastReturn.results[1].amountOut = 100 * Unit

\* The successful swaps of the routed trade that spent its source token.
SourceSpends ==
  { k \in 1..Len(tradeHistory) :
      /\ tradeHistory[k].success
      /\ tradeHistory[k].fromToken = tradeHistory[1].fromToken }

\* C37: when a routed trade has returned, at most one successful swap of
\* its history has the trade's source token as input.  The trades whose
\* swaps all report an output are enough to tell.
C37_SourceSpentOnce ==
  (RoutedReturned /\ \A k \in 1..Len(tradeHistory) :
                       tradeHistory[k].success => tradeHistory[k].amountOut > 0)
    => Cardinality(SourceSpends) <= 1

-----------------------------------------------------------------------------
(* Properties of the profit calculator (SpecProfit)                        *)

Calculated == { detection.opportunities[k] : k \in 1..Len(detection.opportunities) }
Returned == { detection.returned[k] : k \in 1..Len(detection.returned) }

\* C25: every calculated opportunity has grossProfit = output - input,
\* netProfit = grossProfit x 0.98 and profitPercentage = netProfit / input
\* x 100 (in units of 0.0001 %), and the scan keeps exactly the
\* opportunities with netProfit > 0 and profitPercentage >= the threshold;
\* an input of 100 with an output of 101.5 has 1.47 %, kept under a
\* threshold of 1 % and dropped under 2 %.
C25_ProfitFigures ==
  detection.scans = 1 =>
    /\ \A opp \in Calculated :
         /\ opp.inputAmount = detection.inputAmount
         /\ opp.grossProfit = opp.expectedOutputAmount - opp.inputAmount
         /\ opp.netProfit * 100 = opp.grossProfit * 98
         /\ opp.profitPercentage * (opp.inputAmount \div Unit) = opp.netProfit
         /\ (opp.inputAmount = 100 * Unit /\ opp.expectedOutputAmount = 1015 * (Unit \div 10))
              => /\ opp.profitPercentage = 147 * (Percent \div 100)
                 /\ detection.minProfitPercent = 1 * Percent => opp \in Returned
                 /\ detection.minProfitPercent = 2 * Percent => opp \notin Returned
    /\ Returned = { opp \in Calculated :
                      /\ opp.netProfit > 0
                      /\ opp.profitPercentage >= detection.minProfitPercent }

\* Under a threshold of 2 % an opportunity of 1.47 % was dropped and one of
\* 2.94 % kept.
C25_Witness ==
  /\ detection.scans = 1
  /\ detection.minProfitPercent = 2 * Percent
  /\ \E opp \in Calculated \ Returned : opp.profitPercentage = 147 * (Percent \div 100)
  /\ \E opp \in Returned : opp.profitPercentage = 294 * (Percent \div 100)

\* Under a threshold of 0 an opportunity without profit was dropped.
C25_WitnessNoProfit ==
  /\ detection.scans = 1
  /\ detection.minProfitPercent = 0
  /\ \E opp \in Calculated \ Returned : opp.netProfit = 0 /\ opp.profitPercentage = 0
  /\ Returned # {}

\* C26: the list a scan returns is in descending order of profit
\* percentage; of two opportunities with the same percentage the one with
\* fewer hops comes first, and with the same hops the one calculated first.
C26_SortedByProfit ==
  detection.scans = 1 =>
    \A i, j \in 1..Len(detection.returned) :
      i < j =>
        LET a == detection.returned[i]
            b == detection.returned[j]
        IN /\ a.profitPercentage >= b.profitPercentage
           /\ a.profitPercentage = b.profitPercentage =>
                /\ a.path.hops <= b.path.hops
                /\ a.path.hops = b.path.hops => a.timestamp < b.timestamp

\* A tie between a shorter and a longer path, behind an opportunity that
\* was calculated after both.
C26_Witness ==
  /\ detection.scans = 1
  /\ Len(detection.returned) >= 3
  /\ \E i, j \in 1..Len(detection.returned) :
       /\ i < j
       /\ detection.returned[i].profitPercentage = detection.returned[j].profitPercentage
       /\ detection.returned[i].path.hops < detection.returned[j].path.hops
  /\ \E j \in 2..Len(detection.returned) :
       detection.returned[1].timestamp > detection.returned[j].timestamp

-----------------------------------------------------------------------------
(* Properties of the engine's loops (SpecEngine)                           *)

CyclePcs == {"balances", "trade", "delay", "refetch"}
ScanPcs == {"scanning", "arbTrade"}

\* C27: with enableArbitrage false no arbitrage scan is ever run and no
\* arbitrage timer is ever scheduled, whatever start() and stop() calls are
\* made.
C27_NoArbitrageWhenDisabled ==
  ~config.enableArbitrage =>
    /\ TimersOf("scan") = {}
    /\ arbitrageIntervalId = NoTimer
    /\ \A t \in 1..MaxThreads :
         threads[t].pc \notin ScanPcs /\ threads[t].entry # "scan"
    /\ ~lastArbitrageScanTime
    /\ detectionHistory = <<>>
    /\ fetchLog = <<>>

\* Arbitrage is disabled and the engine was started, stopped and started
\* again, and runs on its trade timer.
C27_Witness ==
  /\ ~config.enableArbitrage
  /\ lifecycle = <<"start", "stop", "start">>
  /\ isRunning
  /\ ~StartInFlight
  /\ TimersOf("cycle") # {}
  /\ lastLog = LogStarted

\* What one step of a start() call may do: it begins in its first trade
\* cycle, with no timer set; it sets the trade timer in the step that ends
\* that cycle, and never re-enters the cycle; with arbitrage enabled it
\* goes from the cycle into its first scan and sets the scan timer in the
\* step that ends the scan; it returns from the first scan when arbitrage
\* is enabled, from the first cycle when it is not.
FirstTicksBeforeTimers ==
  /\ (lifecycle' = Append(lifecycle, "start") /\ ~isRunning) =>
       /\ \E t \in 1..MaxThreads :
            /\ FreeSlot(t)
            /\ threads'[t].entry = "start" /\ threads'[t].pc = "balances"
       /\ timers' = timers
  /\ \A t \in 1..MaxThreads :
       (threads[t].entry = "start" /\ threads'[t] # threads[t]) =>
         LET pc == threads[t].pc
             next == threads'[t].pc
             added == timers' \ timers
         IN /\ pc \in CyclePcs \cup ScanPcs
            /\ next \in CyclePcs => pc \in CyclePcs /\ added = {}
            /\ (pc \in CyclePcs /\ next \notin CyclePcs) =>
                 /\ Cardinality(added) = 1
                 /\ \A tm \in added : tm.kind = "cycle" /\ tm.id = intervalId'
                 /\ next \in ScanPcs <=> config.enableArbitrage
            /\ (pc \in ScanPcs /\ next \in ScanPcs) => added = {}
            /\ (pc \in ScanPcs /\ next \notin ScanPcs) =>
                 /\ Cardinality(added) = 1
                 /\ \A tm \in added : tm.kind = "scan" /\ tm.id = arbitrageIntervalId'
                 /\ threads'[t].entry = "none"
            /\ threads'[t].entry = "none" =>
                 pc \in (IF config.enableArbitrage THEN ScanPcs ELSE CyclePcs)
  /\ (timers' \ timers # {}) =>
       \E t \in 1..MaxThreads : threads[t].entry = "start" /\ threads'[t] # threads[t]

\* C28: start() on a stopped engine runs one rebalance tick and, when
\* arbitrage is enabled, one arbitrage scan before it returns; the timer of
\* each loop is set only when that loop's first tick has ended, so no
\* timer-driven tick of a loop precedes the loop's first tick.
C28_FirstTicksInsideStart ==
  [][FirstTicksBeforeTimers]_vars

\* start() has returned with both timers set after a first cycle and a
\* first scan, and no timer has fired yet.
C28_Witness ==
  /\ config.enableArbitrage
  /\ lifecycle = <<"start">>
  /\ ~StartInFlight
  /\ lastLog = LogStarted
  /\ Cardinality(TimersOf("cycle")) = 1 /\ Cardinality(TimersOf("scan")) = 1
  /\ lastBalanceCheck # EmptySummary
  /\ lastArbitrageScanTime
  /\ ops = 0

\* Thread t is awaiting a balance fetch, and in this step the fetch fails:
\* the cycle logs its failure.
BalanceFetchFails(t) ==
  /\ threads[t].pc \in {"balances", "refetch"}
  /\ threads'[t] # threads[t]
  /\ lastLog # LogCycleFailed
  /\ lastLog' = LogCycleFailed

C33_NoSwapAfterStop ==
  [][(StopWasLast /\ ~isRunning /\ timers = {} /\ ~StartInFlight)
       => swapLog' = swapLog]_vars

-----------------------------------------------------------------------------
(* Properties of the arbitrage tick (SpecScan)                             *)

\* The step in which the arbitrage tick of thread t ends.
ScanTickEnds(t) ==
  /\ threads[t].entry = "scan"
  /\ threads[t].pc \in ScanPcs
  /\ threads'[t].entry = "none"

ExpiredAfter == { key \in DOMAIN poolCache' : now >= poolCache'[key].expiresAt }

\* C29: every arbitrage tick, whether or not its scan found an opportunity
\* and whether or not an execution took place, ends with no expired pool
\* snapshot left in the cache.
C29_EveryScanTickEvicts ==
  [][\A t \in 1..MaxThreads : ScanTickEnds(t) => ExpiredAfter = {}]_vars

\* The ticks whose scan found an opportunity end with no expired snapshot
\* left, executed or not.
C29_ScanTickWithOpportunityEvicts ==
  [][\A t \in 1..MaxThreads :
       (ScanTickEnds(t) /\ (threads[t].pc = "arbTrade"
                             \/ detectionHistory' # detectionHistory))
         => ExpiredAfter = {}]_vars

\* An expired snapshot was evicted by a tick that found an opportunity.
C29_Witness ==
  /\ ops = 2
  /\ Quiet
  /\ now >= CacheTTL
  /\ detectionHistory # <<>>
  /\ Len(fetchLog) = 4
  /\ Cardinality(DOMAIN poolCache) = 1

-----------------------------------------------------------------------------
(* Properties of the histories (Spec)                                      *)

\* The cap of a history, scaled to the runs explored here.  The source
\* names no cap: every history is written by push alone
\* (profit-calculator.ts 273 and 362, arbitrage-detector.ts 90 and 215).
HistoryCap == MaxOps

\* C31: the trade history, the detection history and the execution history
\* never hold more than the cap's number of entries.
C31_HistoriesCapped ==
  /\ Len(tradeHistory) <= HistoryCap
  /\ Len(detectionHistory) <= HistoryCap
  /\ Len(executionHistory) <= HistoryCap

\* The histories are append-only: every step leaves each of them as it was
\* or longer by entries at its end.
C31_HistoriesAppendOnly ==
  [][/\ IsPrefix(tradeHistory, tradeHistory')
     /\ IsPrefix(detectionHistory, detectionHistory')
     /\ IsPrefix(executionHistory, executionHistory')]_vars

\* All three histories have grown.
C31_Witness ==
  /\ Len(tradeHistory) >= 2
  /\ Len(detectionHistory) >= 1
  /\ Len(executionHistory) >= 1

-----------------------------------------------------------------------------
(* Properties of the cache's snapshot (SpecCache)                          *)

\* The snapshots of the entries whose expiry time has not passed.
LivePools ==
  { poolCache[key].data : key \in { k \in DOMAIN poolCache : now < poolCache[k].expiresAt } }

\* C32: at any time getAllCachedPools returns no snapshot whose expiry time
\* has passed.
C32_SnapshotAllIsLive == getAllCachedPools(poolCache) \subseteq LivePools

-----------------------------------------------------------------------------
(* Properties of the wait for the transaction (SpecWait)                   *)

\* The step in which the timer of the waiting transaction ends the wait.
TimeoutEndsTheWait ==
  /\ pending.pc = "waiting"
  /\ now >= pending.deadline
  /\ pending'.pc = "none"

\* The call ends with one more entry in the trade history, a failure of the
\* trade that was waiting, returned to the caller and not thrown.
FailureRecorded ==
  /\ Len(tradeHistory') = Len(tradeHistory) + 1
  /\ IsPrefix(tradeHistory, tradeHistory')
  /\ LET result == tradeHistory'[Len(tradeHistory')] IN
       /\ ~result.success
       /\ result.error # NoErr
       /\ result.fromToken = pending.fromToken
       /\ result.toToken = pending.toToken
       /\ result.amountIn = pending.amount
       /\ lastReturn'.fn = "direct"
       /\ ~lastReturn'.threw
       /\ lastReturn'.results = <<result>>
  /\ swapLog' = swapLog

-----------------------------------------------------------------------------
(* Properties of the detector's scan (SpecDetect)                          *)

\* The step is one scan of the detector, returned to its caller.
ScanReturns == detection'.scans = detection.scans + 1 /\ ops' = ops + 1

\* The keys the scan asked the transport for.
ScanFetches ==
  { fetchLog'[k] : k \in (Len(fetchLog) + 1)..Len(fetchLog') }

RegisteredKey(k) ==
  getCacheKey(RegisteredPools[k].token0, RegisteredPools[k].token1,
              RegisteredPools[k].fee)

\* Path k's quotes all answered.
Quoted(k) ==
  \A i \in 1..finder'.paths[k].hops : detection'.quotes[k][i] # Undef

\* The paths the scan calculated an opportunity for, in order.
EvaluatedPaths ==
  [j \in 1..Len(detection'.opportunities) |-> detection'.opportunities[j].timestamp]

\* C35: in every scan, whichever fetches and quotes fail, every registered
\* pool without a live snapshot is requested, every path whose quotes
\* answer is evaluated (and no other), and the scan returns the profitable
\* ones among them.
C35_FailuresAreSkipped ==
  [][ScanReturns =>
       /\ \A k \in 1..Len(RegisteredPools) :
            CacheHit(poolCache, RegisteredKey(k), now) \/ RegisteredKey(k) \in ScanFetches
       /\ \A k \in 1..Len(RegisteredPools) :
            (RegisteredKey(k) \in ScanFetches /\ k \notin detection'.failed)
              => CacheHit(poolCache', RegisteredKey(k), now)
       /\ EvaluatedPaths = SelectSeq([k \in 1..Len(finder'.paths) |-> k], Quoted)
       /\ \A j \in 1..Len(detection'.opportunities) :
            detection'.opportunities[j].path = finder'.paths[EvaluatedPaths[j]]
       /\ \A j \in 1..Len(detection'.opportunities) :
            LET opp == detection'.opportunities[j] IN
            (opp.netProfit > 0 /\ opp.profitPercentage >= detection'.minProfitPercent)
              <=> \E i \in 1..Len(detection'.returned) : detection'.returned[i] = opp
       /\ IsPrefix(detectionHistory, detectionHistory')
       /\ detectionHistory' = detectionHistory \o detection'.returned]_vars

\* A scan in which the first pool's fetch failed and the second pool was
\* still fetched, and in which the first path's quote failed and the second
\* path was still evaluated and returned.
C35_Witness ==
  /\ detection.failed = {1}
  /\ Len(fetchLog) = 2 * Len(RegisteredPools)
  /\ Len(finder.paths) = 2
  /\ detection.quotes[1][1] = Undef
  /\ Len(detection.opportunities) = 1
  /\ detection.opportunities[1].path = finder.paths[2]
  /\ detection.returned = detection.opportunities

-----------------------------------------------------------------------------
(* Properties of the web server (SpecServer)                               *)

\* The engines whose timers the runtime holds.
EnginesWithTimers ==
  { e \in 1..Len(server.engines) : server.engines[e].timers # {} }

LastCall == server.calls[Len(server.calls)]

\* C36: at most one engine has scheduled timers, and when the last request
\* served is POST /api/stop no engine has.
C36_OneEngineAlive ==
  /\ Cardinality(EnginesWithTimers) <= 1
  /\ (server.calls # <<>> /\ LastCall = "stop") => EnginesWithTimers = {}

\* Two engines have scheduled timers at once.
C36_WitnessTwoEngines == Cardinality(EnginesWithTimers) >= 2

-----------------------------------------------------------------------------
(* Properties of the balance planner, continued (SpecBalance)              *)

RECURSIVE SumAmounts(_, _)
\* What the intents whose source is the token of this key ask for together.
SumAmounts(intents, key) ==
  IF intents = <<>> THEN 0
  ELSE (IF Head(intents).token.tokenKey = key THEN Head(intents).amount ELSE 0)
       + SumAmounts(Tail(intents), key)

RECURSIVE SumQuantities(_, _)
SumQuantities(tokens, key) ==
  IF tokens = <<>> THEN 0
  ELSE (IF Head(tokens).tokenKey = key THEN Head(tokens).quantity ELSE 0)
       + SumQuantities(Tail(tokens), key)

\* The balance the summary holds of a source token.
BalanceOf(key) ==
  IF key = config.galaTokenKey THEN balanceSummary.galaTokenBalance
  ELSE SumQuantities(balanceSummary.otherTokens, key)

SourceKeys == { tradeIntents[k].token.tokenKey : k \in 1..Len(tradeIntents) }

GasIsShort == balanceSummary.galaTokenBalance < config.minimumGalaBalance

\* C38 as stated: for a trade percentage in (0, 100], the amounts of the
\* intents of one list that share a source token sum to at most that
\* token's balance.
C38_SourceSumWithinBalance ==
  (planned /\ config.tradeAmountPercentage \in 1..100) =>
    \A key \in SourceKeys : SumAmounts(tradeIntents, key) <= BalanceOf(key)

\* C38: for a trade percentage in (0, 100], every intent asks for at most
\* the quantity of its source token; the intents that share a source token
\* sum to at most that token's balance while the gas balance is not below
\* its minimum, and to at most twice that balance when it is, a refill
\* intent and an intent into the preferred token being emitted for the same
\* token.
C38_SourceSumWithinTwiceBalance ==
  (planned /\ config.tradeAmountPercentage \in 1..100) =>
    /\ \A k \in 1..Len(tradeIntents) :
         tradeIntents[k].amount <= tradeIntents[k].token.quantity
    /\ \A key \in SourceKeys :
         /\ SumAmounts(tradeIntents, key) <= 2 * BalanceOf(key)
         /\ ~GasIsShort => SumAmounts(tradeIntents, key) <= BalanceOf(key)

\* Gas is short and all of a balance is traded: a token is the source of a
\* refill intent and of an intent into the preferred token, and the two ask
\* for twice what the wallet holds of it.
C38_Witness ==
  /\ planned
  /\ config.tradeAmountPercentage = 100
  /\ GasIsShort
  /\ \E i, j \in 1..Len(tradeIntents) :
       /\ i < j
       /\ tradeIntents[i].token = tradeIntents[j].token
       /\ tradeIntents[i].targetToken = config.galaTokenKey
       /\ tradeIntents[j].targetToken = config.preferredTokenKey
       /\ BalanceOf(tradeIntents[i].token.tokenKey) = 50 * Unit
       /\ SumAmounts(tradeIntents, tradeIntents[i].token.tokenKey) = 100 * Unit

\* Gas is not short and the intents of every source stay within its balance.
C38_WitnessWithinBalance ==
  /\ planned
  /\ config.tradeAmountPercentage = 100
  /\ ~GasIsShort
  /\ \E key \in SourceKeys :
       /\ key # config.galaTokenKey
       /\ SumAmounts(tradeIntents, key) = BalanceOf(key)
       /\ BalanceOf(key) = 50 * Unit

-----------------------------------------------------------------------------
(* Properties of the executor, continued (Spec)                            *)

\* What the transport answered during the executeTrade call of the step.
DirectEnv == lastReturn'.env

NoLiquidPool(env) == Len(findAvailablePools(env.probe)) = 0

\* The quote of the call carried an output amount.
ValidQuote(env) == env.quote = "ok" /\ env.quoteOut # 0

=============================================================================
